---- MODULE Spec2Model ----
(***************************************************************************)
(* Model of the clicon XML database (lib/src/clicon_xml_db.c): the flat    *)
(* key/value datastore, the tree walk of xmldb_put, the keyed edit of      *)
(* xmldb_put_xkey and the assembly of xmldb_get, over a fixed YANG         *)
(* specification; and of the client side of the backend protocol           *)
(* (clixon_proto_client.c): the cached socket and session id of a handle.  *)
(*                                                                         *)
(* A C string is a sequence of one-character strings, so that "/"-joined   *)
(* keys, clicon_strsplit and the regular expression ^<key>.*$ are computed *)
(* on characters.  A NULL pointer is the value NULL.                       *)
(***************************************************************************)
EXTENDS Integers, Sequences, FiniteSets, TLC

NULL == <<"NULL">>

(* ------------------------------------------------------------------ *)
(* Bounds of the model                                                *)
(* ------------------------------------------------------------------ *)
\* number of element nodes of an edit tree handed to xmldb_put
MaxNodes == 3
\* number of nodes of an edit tree that carry an operation attribute
MaxAttrs == 1
\* number of top-level elements of an edit tree
MaxTop == 1
\* number of pairs of a datastore handed directly to the assembler
MaxPairs == 2

MaxDeep == 4
\* the elements an xpath selects
MaxMarks == 2
\* the entries of a vector of values
MaxVec == 4
\* the largest session id the backend hands out
MaxSession == 1
\* the socket descriptors connect can give
MaxSock == 2

(* ------------------------------------------------------------------ *)
(* Strings                                                            *)
(* ------------------------------------------------------------------ *)
\* clicon_strsplit(string, delim): the substrings between delimiters;
\* "/a/b" gives "", "a", "b"
RECURSIVE clicon_strsplit(_, _)
clicon_strsplit(s, d) ==
    IF \A i \in 1..Len(s) : s[i] # d
    THEN <<s>>
    ELSE LET i == CHOOSE i \in 1..Len(s) :
                     s[i] = d /\ \A j \in 1..(i-1) : s[j] # d
         IN  <<SubSeq(s, 1, i-1)>> \o clicon_strsplit(SubSeq(s, i+1, Len(s)), d)

\* s begins with p (the match of the regular expression ^p.*$)
IsPrefix(p, s) == Len(p) <= Len(s) /\ SubSeq(s, 1, Len(p)) = p

(* ------------------------------------------------------------------ *)
(* The YANG specification                                             *)
(*   module m {                                                       *)
(*     container a { leaf b; choice h { case e { leaf d; } } }        *)
(*     container c { leaf n { default "42"; }                        *)
(*                   leaf-list l;                                     *)
(*                   list x { key "k";   leaf k; leaf v; }            *)
(*                   list y { key "p q"; leaf p; leaf q; } }          *)
(*     leaf-list t;                                                   *)
(*   }                                                                *)
(* ------------------------------------------------------------------ *)
Ystmt(kw, arg, up, cv) ==
    [ys_keyword |-> kw, ys_argument |-> arg, ys_parent |-> up, ys_cv |-> cv]

Yang ==
    << Ystmt("Y_MODULE",    <<"m">>,           0,  NULL),
       Ystmt("Y_CONTAINER", <<"a">>,           1,  NULL),
       Ystmt("Y_LEAF",      <<"b">>,           2,  NULL),
       Ystmt("Y_CONTAINER", <<"c">>,           1,  NULL),
       Ystmt("Y_LEAF",      <<"n">>,           4,  <<"4", "2">>),
       Ystmt("Y_LEAF_LIST", <<"l">>,           4,  NULL),
       Ystmt("Y_LIST",      <<"x">>,           4,  NULL),
       Ystmt("Y_KEY",       <<"k">>,           7,  NULL),
       Ystmt("Y_LEAF",      <<"k">>,           7,  NULL),
       Ystmt("Y_LEAF",      <<"v">>,           7,  NULL),
       Ystmt("Y_LIST",      <<"y">>,           4,  NULL),
       Ystmt("Y_KEY",       <<"p", " ", "q">>, 11, NULL),
       Ystmt("Y_LEAF",      <<"p">>,           11, NULL),
       Ystmt("Y_LEAF",      <<"q">>,           11, NULL),
       Ystmt("Y_LEAF_LIST", <<"t">>,           1,  NULL),
       Ystmt("Y_CHOICE",    <<"h">>,           2,  NULL),
       Ystmt("Y_CASE",      <<"e">>,           16, NULL),
       Ystmt("Y_LEAF",      <<"d">>,           17, NULL) >>

YangIds == 1..Len(Yang)

DataKeywords == {"Y_CONTAINER", "Y_LEAF", "Y_LEAF_LIST", "Y_LIST"}

\* the first element of a set of indexes, 0 when there is none
First(S) == IF S = {} THEN 0 ELSE CHOOSE i \in S : \A j \in S : i <= j

\* yang_find(yn, keyword, NULL): first child statement of that keyword
yang_find(yn, kw) ==
    First({y \in YangIds : Yang[y].ys_parent = yn /\ Yang[y].ys_keyword = kw})

\* the statement a data node is a child of, the choices and cases between
\* them left out
RECURSIVE DataParent(_)
DataParent(y) ==
    IF Yang[y].ys_parent # 0 /\ Yang[Yang[y].ys_parent].ys_keyword \in {"Y_CHOICE", "Y_CASE"}
    THEN DataParent(Yang[y].ys_parent)
    ELSE Yang[y].ys_parent

\* yang_find_syntax(yn, name): the data node child called name, looked for
\* in the choices and cases of yn too
yang_find_syntax(yn, name) ==
    First({y \in YangIds : /\ DataParent(y) = yn
                           /\ Yang[y].ys_keyword \in DataKeywords
                           /\ Yang[y].ys_argument = name})

\* yang_find_topnode(yspec, name): the data node called name below a module
yang_find_topnode(name) ==
    First({y \in YangIds : /\ Yang[y].ys_parent # 0
                           /\ Yang[Yang[y].ys_parent].ys_keyword = "Y_MODULE"
                           /\ Yang[y].ys_keyword \in DataKeywords
                           /\ Yang[y].ys_argument = name})

\* yang_arg2cvec(ykey, " "): the names of the key statement
yang_arg2cvec(ykey) == clicon_strsplit(Yang[ykey].ys_argument, " ")

\* yang_key_match(yn, name): name is one of the key names of list yn
yang_key_match(yn, name) ==
    LET ykey == yang_find(yn, "Y_KEY")
    IN  ykey # 0 /\ \E i \in 1..Len(yang_arg2cvec(ykey)) : yang_arg2cvec(ykey)[i] = name

(* ------------------------------------------------------------------ *)
(* The key/value store: a function from keys to values (NULL: no      *)
(* value stored with the key)                                         *)
(* ------------------------------------------------------------------ *)
EmptyDb == [k \in {} |-> NULL]

db_init == EmptyDb

db_exists(db, key) == key \in DOMAIN db

db_set(db, key, val) ==
    [k \in (DOMAIN db) \cup {key} |-> IF k = key THEN val ELSE db[k]]

db_del(db, key) == [k \in (DOMAIN db) \ {key} |-> db[k]]

\* db_regexp(db, "^<key>.*$"): the keys matching the expression
db_regexp(db, prefix) == {k \in DOMAIN db : IsPrefix(prefix, k)}

(* ------------------------------------------------------------------ *)
(* XML trees: a sequence of element nodes, the parent before its      *)
(* children; up = 0 is a child of the top node, children are ordered  *)
(* by their index.  body is the text of the body child (NULL: none),  *)
(* spec the YANG statement the node is bound to (0: none), attr the   *)
(* value of the "operation" attribute (NULL: none).                   *)
(* ------------------------------------------------------------------ *)
Cx(up, name, body, spec, attr) ==
    [up |-> up, name |-> name, body |-> body, spec |-> spec, attr |-> attr]

\* the element children of node i in order (xml_child_each, CX_ELMNT)
Children(xt, i) == {j \in 1..Len(xt) : xt[j].up = i}

\* node i, the elements above it and the top
RECURSIVE Ancestors(_, _)
Ancestors(xt, i) == IF i = 0 THEN {0} ELSE {i} \cup Ancestors(xt, xt[i].up)

RECURSIVE SetToSeq(_)
SetToSeq(S) ==
    IF S = {} THEN <<>> ELSE <<First(S)>> \o SetToSeq(S \ {First(S)})

\* xml_find(x, name): first child element called name, 0 if none
xml_find(xt, i, name) == First({j \in Children(xt, i) : xt[j].name = name})

\* xml_body(x)
xml_body(xt, i) == xt[i].body

(* ------------------------------------------------------------------ *)
(* xmldb_put: the tree walk                                           *)
(* ------------------------------------------------------------------ *)
\* The outcome of a mutation so far: the datastore, the return value,
\* the error raised (clicon_err), the node that raised it and the
\* calls made on the key/value store, in the order made.
Outcome(db) == [db |-> db, retval |-> 0, err |-> "OK", at |-> 0, log |-> <<>>]

Fail(r, i, err) == [r EXCEPT !.retval = -1, !.err = err, !.at = i]

Set(r, i, key, val) ==
    [r EXCEPT !.db = db_set(r.db, key, val),
              !.log = Append(r.log, [node |-> i, call |-> "db_set", key |-> key, val |-> val])]

Del(r, i, key) ==
    [r EXCEPT !.db = db_del(r.db, key),
              !.log = Append(r.log, [node |-> i, call |-> "db_del", key |-> key, val |-> NULL])]

\* a get_operation that looks at no attribute
get_operation_arg(x, op) == [retval |-> 0, op |-> op]

\* get_operation(xn, &op): the "operation" attribute changes op; the
\* attribute value is kept as one word
get_operation(x, op) ==
    IF x.attr = NULL THEN [retval |-> 0, op |-> op]
    ELSE IF x.attr = <<"merge">>   THEN [retval |-> 0, op |-> "OP_MERGE"]
    ELSE IF x.attr = <<"replace">> THEN [retval |-> 0, op |-> "OP_REPLACE"]
    ELSE IF x.attr = <<"create">>  THEN [retval |-> 0, op |-> "OP_CREATE"]
    ELSE IF x.attr = <<"delete">>  THEN [retval |-> 0, op |-> "OP_DELETE"]
    ELSE IF x.attr = <<"remove">>  THEN [retval |-> 0, op |-> "OP_REMOVE"]
    ELSE [retval |-> -1, op |-> op]

\* append_listkeys(ckey, xt, ys): "/<body>" of every key leaf of the list
\* entry, in the order of the key statement
RECURSIVE append_keys(_, _, _, _)
append_keys(ckey, xt, i, cvk) ==
    IF cvk = <<>> THEN [retval |-> 0, ckey |-> ckey]
    ELSE LET xkey == xml_find(xt, i, Head(cvk))
         IN  IF xkey = 0 THEN [retval |-> -1, ckey |-> ckey]
             ELSE append_keys(ckey \o <<"/">> \o xml_body(xt, xkey), xt, i, Tail(cvk))

append_listkeys(ckey, xt, i, ys) ==
    LET ykey == yang_find(ys, "Y_KEY")
    IN  IF ykey = 0 THEN [retval |-> -1, ckey |-> ckey]
        ELSE append_keys(ckey, xt, i, yang_arg2cvec(ykey))

\* the first switch of put, on the keyword of ys: the key of the node from
\* cbxk, the key of its parent with "/<name>"
put_key(xt, i, ys, cbxk) ==
    IF Yang[ys].ys_keyword = "Y_LIST" THEN append_listkeys(cbxk, xt, i, ys)
    ELSE IF Yang[ys].ys_keyword = "Y_LEAF_LIST"
    THEN [retval |-> 0, ckey |-> cbxk \o <<"/">> \o xml_body(xt, i)]
    ELSE [retval |-> 0, ckey |-> cbxk]

\* put_write with the test of OP_CREATE left out
put_write_nocheck(r, i, xk, body, op) ==
    IF op \in {"OP_CREATE", "OP_MERGE", "OP_REPLACE"} THEN Set(r, i, xk, body)
    ELSE IF op = "OP_DELETE" /\ ~db_exists(r.db, xk) THEN Fail(r, i, "DeleteMissing")
    ELSE IF op \in {"OP_DELETE", "OP_REMOVE"} THEN Del(r, i, xk)
    ELSE r

\* put_write where the db_set of a key that exists clears its value
put_write_clear(r, i, xk, body, op) ==
    IF op = "OP_CREATE" /\ db_exists(r.db, xk) THEN Fail(r, i, "CreateExists")
    ELSE IF op \in {"OP_CREATE", "OP_MERGE", "OP_REPLACE"}
    THEN Set(r, i, xk, IF db_exists(r.db, xk) THEN NULL ELSE body)
    ELSE IF op = "OP_DELETE" /\ ~db_exists(r.db, xk) THEN Fail(r, i, "DeleteMissing")
    ELSE IF op \in {"OP_DELETE", "OP_REMOVE"} THEN Del(r, i, xk)
    ELSE r

\* put_write where OP_NONE stores the node as a merge does
put_write_none(r, i, xk, body, op) ==
    IF op = "OP_CREATE" /\ db_exists(r.db, xk) THEN Fail(r, i, "CreateExists")
    ELSE IF op \in {"OP_CREATE", "OP_MERGE", "OP_REPLACE", "OP_NONE"} THEN Set(r, i, xk, body)
    ELSE IF op = "OP_DELETE" /\ ~db_exists(r.db, xk) THEN Fail(r, i, "DeleteMissing")
    ELSE IF op \in {"OP_DELETE", "OP_REMOVE"} THEN Del(r, i, xk)
    ELSE r

\* the second switch of put, on op: the write of the node at key xk
put_write(r, i, xk, body, op) ==
    IF op = "OP_CREATE" /\ db_exists(r.db, xk) THEN Fail(r, i, "CreateExists")
    ELSE IF op \in {"OP_CREATE", "OP_MERGE", "OP_REPLACE"} THEN Set(r, i, xk, body)
    ELSE IF op = "OP_DELETE" /\ ~db_exists(r.db, xk) THEN Fail(r, i, "DeleteMissing")
    ELSE IF op \in {"OP_DELETE", "OP_REMOVE"} THEN Del(r, i, xk)
    ELSE r

\* put(dbname, xt, ys, op, xk0): one node of the edit tree, then its
\* children
RECURSIVE put(_, _, _, _, _, _)
RECURSIVE put_children(_, _, _, _, _, _)

\* the loop of put over the children of node i, after its own write
put_after(r, xt, i, ys, op, xk) ==
    IF r.retval < 0 THEN r
    ELSE put_children(r, xt, SetToSeq(Children(xt, i)), ys, op, xk)

\* put_write of a walk that has not failed
put_write_last(r, i, xk, body, op) ==
    IF r.retval < 0 THEN r ELSE put_write(r, i, xk, body, op)

\* a put that writes node i after the walk of its children
put_node_last(r, xt, i, ys, op, k) ==
    IF k.retval < 0 THEN Fail(r, i, "ListWithoutKey")
    ELSE put_write_last(put_after(r, xt, i, ys, op, k.ckey), i, k.ckey, xml_body(xt, i), op)

\* node i under the operation op, k what put_key gave
put_node(r, xt, i, ys, op, k) ==
    IF k.retval < 0 THEN Fail(r, i, "ListWithoutKey")
    ELSE put_after(put_write(r, i, k.ckey, xml_body(xt, i), op), xt, i, ys, op, k.ckey)

\* node i, g what get_operation gave
put_op(r, xt, i, ys, g, xk0) ==
    IF g.retval < 0 THEN Fail(r, i, "BadOperation")
    ELSE put_node(r, xt, i, ys, g.op, put_key(xt, i, ys, xk0 \o <<"/">> \o xt[i].name))

put(r, xt, i, ys, op0, xk0) == put_op(r, xt, i, ys, get_operation(xt[i], op0), xk0)

\* one child x of a node bound to ys, resolved to y, then the children
\* after it
put_child(r, xt, kids, ys, y, op, xk) ==
    IF y = 0 THEN Fail(r, Head(kids), "UnknownNode")
    ELSE put_children(put(r, xt, Head(kids), y, op, xk), xt, Tail(kids), ys, op, xk)

put_children(r, xt, kids, ys, op, xk) ==
    IF r.retval < 0 \/ kids = <<>> THEN r
    ELSE put_child(r, xt, kids, ys, yang_find_syntax(ys, xt[Head(kids)].name), op, xk)

\* the loop of xmldb_put over the top-level elements
RECURSIVE xmldb_put_each(_, _, _, _)
xmldb_put_top(r, xt, kids, ys, op) ==
    IF ys = 0 THEN Fail(r, Head(kids), "UnknownNode")
    ELSE xmldb_put_each(put(r, xt, Head(kids), ys, op, <<>>), xt, Tail(kids), op)

xmldb_put_each(r, xt, kids, op) ==
    IF r.retval < 0 \/ kids = <<>> THEN r
    ELSE xmldb_put_top(r, xt, kids, yang_find_topnode(xt[Head(kids)].name), op)

\* xmldb_put that restores the datastore when the walk fails
xmldb_put_undo(r, db) == IF r.retval < 0 THEN [r EXCEPT !.db = db] ELSE r

xmldb_put_rollback(db, xt, op) ==
    xmldb_put_undo(xmldb_put_each(Outcome(IF op = "OP_REPLACE" THEN db_init ELSE db),
                                  xt, SetToSeq(Children(xt, 0)), op),
                   db)

\* xmldb_put that leaves the datastore as it is when op is replace
xmldb_put_keep(db, xt, op) ==
    xmldb_put_each(Outcome(db), xt, SetToSeq(Children(xt, 0)), op)

\* xmldb_put(dbname, xt, yspec, op)
xmldb_put(db, xt, op) ==
    xmldb_put_each(Outcome(IF op = "OP_REPLACE" THEN db_init ELSE db),
                   xt, SetToSeq(Children(xt, 0)), op)

(* ------------------------------------------------------------------ *)
(* Key formats                                                        *)
(* ------------------------------------------------------------------ *)
\* "/%s" once per name of the key statement
RECURSIVE Wildcards(_)
Wildcards(n) == IF n = 0 THEN <<>> ELSE <<"/", "%", "s">> \o Wildcards(n - 1)

\* yang2xmlkeyfmt_1(ys, cb): the format of the ancestors, then of ys
\* yang2xmlkeyfmt_1 with a component for a choice and for a case too
RECURSIVE yang2xmlkeyfmt_1_choice(_)
yang2xmlkeyfmt_1_choice(ys) ==
    (IF Yang[ys].ys_parent # 0
        /\ Yang[Yang[ys].ys_parent].ys_keyword \notin {"Y_MODULE", "Y_SUBMODULE"}
     THEN yang2xmlkeyfmt_1_choice(Yang[ys].ys_parent) ELSE <<>>)
    \o <<"/">> \o Yang[ys].ys_argument
    \o (IF Yang[ys].ys_keyword = "Y_LIST"
        THEN Wildcards(Len(yang_arg2cvec(yang_find(ys, "Y_KEY"))))
        ELSE IF Yang[ys].ys_keyword = "Y_LEAF_LIST" THEN Wildcards(1)
        ELSE <<>>)

RECURSIVE yang2xmlkeyfmt_1(_)
yang2xmlkeyfmt_1(ys) ==
    LET yn   == Yang[ys].ys_parent
        up   == IF yn # 0 /\ Yang[yn].ys_keyword \notin {"Y_MODULE", "Y_SUBMODULE"}
                THEN yang2xmlkeyfmt_1(yn) ELSE <<>>
        own  == IF Yang[ys].ys_keyword \notin {"Y_CHOICE", "Y_CASE"}
                THEN <<"/">> \o Yang[ys].ys_argument ELSE <<>>
        keys == IF Yang[ys].ys_keyword = "Y_LIST"
                THEN Wildcards(Len(yang_arg2cvec(yang_find(ys, "Y_KEY"))))
                ELSE IF Yang[ys].ys_keyword = "Y_LEAF_LIST" THEN Wildcards(1)
                ELSE <<>>
    IN  up \o own \o keys

yang2xmlkeyfmt(ys) == yang2xmlkeyfmt_1(ys)

\* the loop of xmlkeyfmt2key over the characters of the format, from
\* character i, with j the next variable of cvv (cvv[1] is the cli string)
RECURSIVE xmlkeyfmt2key_scan(_, _, _, _, _, _)
xmlkeyfmt2key_scan(xkfmt, cvv, i, j, esc, cb) ==
    IF i > Len(xkfmt) THEN [retval |-> 0, xk |-> cb]
    ELSE LET c == xkfmt[i]
         IN  IF esc
             THEN IF c # "s" THEN xmlkeyfmt2key_scan(xkfmt, cvv, i + 1, j, FALSE, cb)
                  ELSE IF j + 1 > Len(cvv) THEN [retval |-> -1, xk |-> NULL]
                  ELSE xmlkeyfmt2key_scan(xkfmt, cvv, i + 1, j + 1, FALSE, cb \o cvv[j + 1])
             ELSE IF c = "%" THEN xmlkeyfmt2key_scan(xkfmt, cvv, i + 1, j, TRUE, cb)
                  ELSE xmlkeyfmt2key_scan(xkfmt, cvv, i + 1, j, FALSE, Append(cb, c))

\* xmlkeyfmt2key with the first variable taken from the cli string
xmlkeyfmt2key_cli(xkfmt, cvv) == xmlkeyfmt2key_scan(xkfmt, cvv, 1, 0, FALSE, <<>>)

\* xmlkeyfmt2key(xkfmt, cvv, &xk)
xmlkeyfmt2key(xkfmt, cvv) == xmlkeyfmt2key_scan(xkfmt, cvv, 1, 1, FALSE, <<>>)

(* ------------------------------------------------------------------ *)
(* xmldb_put_xkey: the keyed edit.  vec[i + 1] is the C vec[i].       *)
(* ------------------------------------------------------------------ *)
IsWrite(op) == op \in {"OP_MERGE", "OP_REPLACE", "OP_CREATE"}

\* db_set(dbname, key, val, len) under op merge, replace or create only
SetIfWrite(r, i, key, val, op) == IF IsWrite(op) THEN Set(r, i, key, val) ELSE r

\* the delete or remove of a key leaf of a list: the name of the leaf is
\* not written to the key
IsKeyLeaf(y, op) ==
    /\ op \in {"OP_DELETE", "OP_REMOVE"}
    /\ Yang[y].ys_keyword = "Y_LEAF"
    /\ Yang[Yang[y].ys_parent].ys_keyword = "Y_LIST"
    /\ yang_key_match(Yang[y].ys_parent, Yang[y].ys_argument)

\* what the loop over the components of the key hands on: the outcome so
\* far, the yang statement reached, the partial key
Walk(r, y, ckey) == [r |-> r, y |-> y, ckey |-> ckey]

RECURSIVE xmldb_put_xkey_loop(_, _, _, _, _, _)

\* case Y_LIST with the key names cvk, ckey the key with the list name and
\* i the component after it: the loop over the key names is left (break)
\* after the first name, into the default arm
xmldb_put_xkey_list(r, vec, i, y, ckey, op, cvk) ==
    IF cvk = <<>>
    THEN xmldb_put_xkey_loop(SetIfWrite(r, i, ckey, NULL, op), vec, i, y, ckey, op)
    ELSE IF i + 1 >= Len(vec) THEN Walk(Fail(r, i, "MalformedKey"), y, ckey)
    ELSE xmldb_put_xkey_loop(
             SetIfWrite(SetIfWrite(r, i, ckey \o <<"/">> \o vec[i + 1] \o <<"/">> \o Head(cvk),
                                   vec[i + 1], op),
                        i, ckey \o <<"/">> \o vec[i + 1], NULL, op),
             vec, i + 1, y, ckey \o <<"/">> \o vec[i + 1], op)

\* the switch on the keyword of y, ckey the key with the name and i the
\* component after the name
xmldb_put_xkey_switch(r, vec, i, y, ckey, op) ==
    IF Yang[y].ys_keyword = "Y_LEAF_LIST"
    THEN IF i >= Len(vec) THEN Walk(Fail(r, i, "MalformedKey"), y, ckey)
         ELSE xmldb_put_xkey_loop(r, vec, i + 1, y, ckey \o <<"/">> \o vec[i + 1], op)
    ELSE IF Yang[y].ys_keyword = "Y_LIST"
    THEN IF yang_find(y, "Y_KEY") = 0 THEN Walk(Fail(r, i, "ListWithoutKey"), y, ckey)
         ELSE xmldb_put_xkey_list(r, vec, i, y, ckey, op, yang_arg2cvec(yang_find(y, "Y_KEY")))
    ELSE xmldb_put_xkey_loop(SetIfWrite(r, i, ckey, NULL, op), vec, i, y, ckey, op)

\* component i of the key, called name, resolved to y
xmldb_put_xkey_name(r, vec, i, y0, y, ckey, op) ==
    IF y = 0 THEN Walk(Fail(r, i, "UnknownNode"), y0, ckey)
    ELSE xmldb_put_xkey_switch(r, vec, i + 1, y,
                               IF IsKeyLeaf(y, op) THEN ckey ELSE ckey \o <<"/">> \o vec[i + 1],
                               op)

\* the while loop over the components of the key from component i: r the
\* outcome so far, y0 the yang statement reached, ckey the partial key
xmldb_put_xkey_loop(r, vec, i, y0, ckey, op) ==
    IF i >= Len(vec) THEN Walk(r, y0, ckey)
    ELSE xmldb_put_xkey_name(r, vec, i, y0,
                             IF i = 1 THEN yang_find_topnode(vec[i + 1])
                             ELSE yang_find_syntax(y0, vec[i + 1]),
                             ckey, op)

\* the deletion of every pair db_regexp returned
RECURSIVE DelAll(_, _, _)
DelAll(r, i, keys) ==
    IF keys = {} THEN r
    ELSE LET k == CHOOSE k \in keys : TRUE IN DelAll(Del(r, i, k), i, keys \ {k})

\* a final switch that stores the value and then, as the loop does for a
\* component, the key without value
xmldb_put_xkey_final_bare(r, y, xk, val, op, at) ==
    IF op = "OP_CREATE" /\ db_exists(r.db, xk) THEN Fail(r, at, "CreateExists")
    ELSE IF IsWrite(op)
    THEN Set(Set(r, at, xk, IF Yang[y].ys_keyword \in {"Y_LEAF", "Y_LEAF_LIST"} THEN val ELSE NULL),
             at, xk, NULL)
    ELSE IF op = "OP_DELETE" /\ ~db_exists(r.db, xk) THEN Fail(r, at, "DeleteMissing")
    ELSE IF op \in {"OP_DELETE", "OP_REMOVE"}
    THEN DelAll(r, at, db_regexp(r.db, xk))
    ELSE r

\* the switch on the final key xk, reached at yang statement y
xmldb_put_xkey_final(r, y, xk, val, op, at) ==
    IF op = "OP_CREATE" /\ db_exists(r.db, xk) THEN Fail(r, at, "CreateExists")
    ELSE IF IsWrite(op)
    THEN Set(r, at, xk, IF Yang[y].ys_keyword \in {"Y_LEAF", "Y_LEAF_LIST"} THEN val ELSE NULL)
    ELSE IF op = "OP_DELETE" /\ ~db_exists(r.db, xk) THEN Fail(r, at, "DeleteMissing")
    ELSE IF op \in {"OP_DELETE", "OP_REMOVE"}
    THEN DelAll(r, at, db_regexp(r.db, xk))
    ELSE r

xmldb_put_xkey_end(w, val, op, at) ==
    IF w.r.retval < 0 THEN w.r ELSE xmldb_put_xkey_final(w.r, w.y, w.ckey, val, op, at)

\* xmldb_put_xkey(dbname, xk, val, yspec, op)
xmldb_put_xkey(db, xk, val, op) ==
    IF xk = <<>> \/ xk[1] # "/" THEN Fail(Outcome(db), 0, "MalformedKey")
    ELSE IF Len(clicon_strsplit(xk, "/")) < 2 THEN Fail(Outcome(db), 0, "MalformedKey")
    ELSE xmldb_put_xkey_end(
             xmldb_put_xkey_loop(Outcome(db), clicon_strsplit(xk, "/"), 1, 0, <<>>, op),
             val, op, Len(clicon_strsplit(xk, "/")))

(* ------------------------------------------------------------------ *)
(* xmldb_get: assembly of the tree from the pairs                     *)
(* ------------------------------------------------------------------ *)
\* xml_new_spec(name, parent, spec): a new last child of parent
xml_new_spec(xt, up, name, spec) == Append(xt, Cx(up, name, NULL, spec, NULL))

\* xpath_first(x, "name[keyname=arg]"): the first child of x called name
\* with a child called keyname whose body is arg
xpath_first(xt, x, name, keyname, arg) ==
    First({j \in Children(xt, x) :
              /\ xt[j].name = name
              /\ \E b \in Children(xt, j) : xt[b].name = keyname /\ xt[b].body = arg})

\* what the assembler hands on: return value, error, tree and the
\* element reached
Asm(retval, err, xt, x) == [retval |-> retval, err |-> err, xt |-> xt, x |-> x]

\* the new list entry of create_keyvalues: the entry, then its key leaf,
\* bound to the key statement, with body arg
create_keyvalues_new(xt, x, y, ykey, name, arg, keyname) ==
    Append(xml_new_spec(xt, x, name, y), Cx(Len(xt) + 1, keyname, arg, ykey, NULL))

\* create_keyvalues(x, y, ykey, name, arg, keyname, &xcp): the list entry
\* under x with that key value, created with its key leaf when absent
create_keyvalues(xt, x, y, ykey, name, arg, keyname) ==
    IF xpath_first(xt, x, name, keyname, arg) # 0
    THEN Asm(0, "OK", xt, xpath_first(xt, x, name, keyname, arg))
    ELSE Asm(0, "OK", create_keyvalues_new(xt, x, y, ykey, name, arg, keyname), Len(xt) + 1)

RECURSIVE get_loop(_, _, _, _, _)
RECURSIVE get_keys(_, _, _, _, _, _, _, _)

\* one key name of the list: x becomes the entry create_keyvalues gave
get_keys_next(kv, y, ykey, name, vec, i, cvk) ==
    get_keys(kv.xt, kv.x, y, ykey, name, vec, i, cvk)

\* the loop of get over the key names cvk of the list y called name: one
\* component of the key and one create_keyvalues for each key name; i is
\* the component last read
get_keys(xt, x, y, ykey, name, vec, i, cvk) ==
    IF cvk = <<>> THEN get_loop(xt, vec, i + 1, y, x)
    ELSE IF i + 1 >= Len(vec) THEN Asm(-1, "MalformedKey", xt, x)
    ELSE get_keys_next(create_keyvalues(xt, x, y, ykey, name, vec[i + 2], Head(cvk)),
                       y, ykey, name, vec, i + 1, Tail(cvk))

\* the element of a new last child of x
get_new(xt, vec, i, y, x, name) == get_loop(xml_new_spec(xt, x, name, y), vec, i, y, Len(xt) + 1)

\* case Y_LEAF_LIST: the component after the name is the value; xc is the
\* first child of x called name
get_leaf_list(xt, vec, i, y, x, name, xc) ==
    IF i + 1 >= Len(vec) THEN Asm(-1, "MalformedKey", xt, x)
    ELSE IF xc = 0 \/ xml_find(xt, xc, vec[i + 2]) = 0
    THEN get_new(xt, vec, i + 2, y, x, name)
    ELSE get_loop(xt, vec, i + 2, y, xc)

\* the default arm: xc is the first child of x called name
get_default(xt, vec, i, y, x, name, xc) ==
    IF xc = 0 THEN get_new(xt, vec, i + 1, y, x, name)
    ELSE get_loop(xt, vec, i + 1, y, xc)

\* component i of the key, called name, resolved to y, below element x
get_name(xt, vec, i, y, x, name) ==
    IF y = 0 THEN Asm(-1, "UnknownNode", xt, x)
    ELSE IF Yang[y].ys_keyword = "Y_LEAF_LIST"
    THEN get_leaf_list(xt, vec, i, y, x, name, xml_find(xt, x, name))
    ELSE IF Yang[y].ys_keyword = "Y_LIST"
    THEN IF yang_find(y, "Y_KEY") = 0 THEN Asm(-1, "ListWithoutKey", xt, x)
         ELSE get_keys(xt, x, y, yang_find(y, "Y_KEY"), name, vec, i,
                       yang_arg2cvec(yang_find(y, "Y_KEY")))
    ELSE get_default(xt, vec, i, y, x, name, xml_find(xt, x, name))

\* the while loop of get from component i of the key, at element x bound
\* to yang statement y0
get_loop(xt, vec, i, y0, x) ==
    IF i >= Len(vec) THEN Asm(0, "OK", xt, x)
    ELSE get_name(xt, vec, i, yang_find_syntax(y0, vec[i + 1]), x, vec[i + 1])

\* the end of get: the value becomes the body of the element reached,
\* when it has none
get_body(w, val) ==
    IF w.retval < 0 THEN w
    ELSE IF val # NULL /\ xml_body(w.xt, w.x) = NULL
    THEN Asm(0, "OK", [w.xt EXCEPT ![w.x].body = val], w.x)
    ELSE w

\* the top symbol of the key, resolved to y; xc is the child of the top
\* node with that name
get_top(xt, vec, y, xc, val) ==
    IF y = 0 THEN Asm(-1, "UnknownNode", xt, 0)
    ELSE IF xc = 0
    THEN get_body(get_loop(xml_new_spec(xt, 0, vec[2], y), vec, 2, y, Len(xt) + 1), val)
    ELSE get_body(get_loop(xt, vec, 2, y, xc), val)

get_split(xt, vec, val) ==
    IF Len(vec) < 2 THEN Asm(-1, "MalformedKey", xt, 0)
    ELSE get_top(xt, vec, yang_find_topnode(vec[2]), xml_find(xt, 0, vec[2]), val)

\* get(dbname, ys, xk, val, xt): integrate one pair into the tree
get(xt, xk, val) ==
    IF xk = <<>> \/ xk[1] # "/" THEN Asm(-1, "MalformedKey", xt, 0)
    ELSE get_split(xt, clicon_strsplit(xk, "/"), val)

\* xml_sanity(x): the node is bound and is called as its yang statement
xml_sanity(xt, x) ==
    IF xt[x].spec = 0 THEN -1
    ELSE IF xt[x].name # Yang[xt[x].spec].ys_argument THEN -1
    ELSE 0

\* xml_default without the test for the leaf: a leaf that is there gets the
\* default
xml_default_leaf_shadow(xt, x, y) ==
    IF Yang[y].ys_keyword = "Y_LEAF" /\ Yang[y].ys_cv # NULL
    THEN IF xml_find(xt, x, Yang[y].ys_argument) = 0
         THEN Append(xt, Cx(x, Yang[y].ys_argument, Yang[y].ys_cv, y, NULL))
         ELSE [xt EXCEPT ![xml_find(xt, x, Yang[y].ys_argument)].body = Yang[y].ys_cv]
    ELSE xt

\* xml_default(x): the leaves with a default that x lacks, for each child
\* statement of the yang statement of x
xml_default_leaf(xt, x, y) ==
    IF /\ Yang[y].ys_keyword = "Y_LEAF"
       /\ Yang[y].ys_cv # NULL
       /\ xml_find(xt, x, Yang[y].ys_argument) = 0
    THEN Append(xt, Cx(x, Yang[y].ys_argument, Yang[y].ys_cv, y, NULL))
    ELSE xt

RECURSIVE xml_default_each(_, _, _)
xml_default_each(xt, x, ys) ==
    IF ys = <<>> THEN xt
    ELSE xml_default_each(xml_default_leaf(xt, x, Head(ys)), x, Tail(ys))

xml_default(xt, x) ==
    IF Yang[xt[x].spec].ys_keyword \in {"Y_CONTAINER", "Y_LIST"}
    THEN xml_default_each(xt, x, SetToSeq({y \in YangIds : Yang[y].ys_parent = xt[x].spec}))
    ELSE xt

\* xml_apply(xt, CX_ELMNT, xml_default, NULL): every element below the top
RECURSIVE xml_apply_default(_, _)
xml_apply_default(xt, x) ==
    IF x > Len(xt) THEN xt ELSE xml_apply_default(xml_default(xt, x), x + 1)

\* the loop of xmldb_get over the pairs in the order db_regexp gave them
RECURSIVE xmldb_get_each(_, _, _)
xmldb_get_next(db, pairs, g) ==
    IF g.retval < 0 THEN g ELSE xmldb_get_each(db, pairs, g.xt)

xmldb_get_each(db, pairs, xt) ==
    IF pairs = <<>> THEN Asm(0, "OK", xt, 0)
    ELSE xmldb_get_next(db, Tail(pairs), get(xt, Head(pairs), db[Head(pairs)]))

\* what xmldb_get returns: the return value and the tree
Got(retval, err, xtop) == [retval |-> retval, err |-> err, xtop |-> xtop]

\* xml_apply(xt, CX_ELMNT, xml_sanity, NULL) on the tree with its defaults
xmldb_get_sanity(xt) ==
    IF \E x \in 1..Len(xt) : xml_sanity(xt, x) < 0
    THEN Got(-1, "SchemaMismatch", <<>>)
    ELSE Got(0, "OK", xt)

xmldb_get_default(a) ==
    IF a.retval < 0 THEN Got(-1, a.err, <<>>)
    ELSE xmldb_get_sanity(xml_apply_default(a.xt, 1))

\* xmldb_get(dbname, NULL, yspec, &xtop) when db_regexp gave the keys in
\* the order pairs
xmldb_get(db, pairs) == xmldb_get_default(xmldb_get_each(db, pairs, <<>>))

(* ------------------------------------------------------------------ *)
(* xmldb_get with an xpath: mark and prune                            *)
(* ------------------------------------------------------------------ *)
\* what a walk of xml_tree_prune_unmarked hands up: the number of children
\* that are marked or have a marked element below them, and the elements
\* xml_prune was called on
Pruned(mark, gone) == [mark |-> mark, gone |-> gone]

RECURSIVE xml_tree_prune_each(_, _, _, _, _)

\* an unmarked child x after the walk below it: it counts when something
\* below it is marked, and is pruned otherwise
xml_tree_prune_sub(x, sub) ==
    IF sub.mark # 0 THEN Pruned(1, sub.gone) ELSE Pruned(0, {x})

\* one child x of the loop: a marked child counts and is not entered
xml_tree_prune_child(xt, marks, x) ==
    IF x \in marks THEN Pruned(1, {})
    ELSE xml_tree_prune_sub(x, xml_tree_prune_each(xt, marks, SetToSeq(Children(xt, x)), 0, {}))

xml_tree_prune_add(xt, marks, kids, mark, gone, c) ==
    xml_tree_prune_each(xt, marks, kids, mark + c.mark, gone \cup c.gone)

\* the loop over the children kids of an element
xml_tree_prune_each(xt, marks, kids, mark, gone) ==
    IF kids = <<>> THEN Pruned(mark, gone)
    ELSE xml_tree_prune_add(xt, marks, Tail(kids), mark, gone,
                            xml_tree_prune_child(xt, marks, Head(kids)))

\* xml_tree_prune_unmarked(x, &upmark), the elements of marks having
\* XML_FLAG_MARK
xml_tree_prune_unmarked(xt, marks, x) ==
    xml_tree_prune_each(xt, marks, SetToSeq(Children(xt, x)), 0, {})

\* the elements left when xml_prune has removed the elements of gone, each
\* with all below it
Kept(xt, gone) == {j \in 1..Len(xt) : Ancestors(xt, j) \cap gone = {}}

\* the place in ids of element j of the tree before (0: the top)
Pos(ids, j) == IF j = 0 THEN 0 ELSE CHOOSE k \in 1..Len(ids) : ids[k] = j

\* the tree of the elements ids of xt, in their order
xml_prune(xt, ids) ==
    [k \in 1..Len(ids) |-> [xt[ids[k]] EXCEPT !.up = Pos(ids, xt[ids[k]].up)]]

\* what a get with an xpath returns, and what it was computed from: the
\* function, return value, error and tree, the assembled tree xt0, the
\* elements xvec of xt0 the xpath gave, and for each element of the
\* returned tree the element ids[k] of xt0 it is
Sel(fn, retval, err, xtop, xt0, xvec, ids) ==
    [fn |-> fn, retval |-> retval, err |-> err, xtop |-> xtop,
     xt0 |-> xt0, xvec |-> xvec, ids |-> ids]

xmldb_get_fill(fn, xt0, xvec, ids, g) == Sel(fn, g.retval, g.err, g.xtop, xt0, xvec, ids)

\* the defaults and the sanity check on the pruned tree
xmldb_get_sel(xt0, xvec, ids) ==
    xmldb_get_fill("xmldb_get", xt0, xvec, ids,
                   xmldb_get_sanity(xml_apply_default(xml_prune(xt0, ids), 1)))

xmldb_get_prune(a, xvec) ==
    IF a.retval < 0 THEN Sel("xmldb_get", -1, a.err, <<>>, a.xt, {}, <<>>)
    ELSE xmldb_get_sel(a.xt, xvec,
                       SetToSeq(Kept(a.xt, xml_tree_prune_unmarked(a.xt, xvec, 0).gone)))

\* xmldb_get(dbname, xpath, yspec, &xtop) with an xpath that xpath_vec
\* evaluates to the elements xvec of the assembled tree
xmldb_get_xpath(db, pairs, xvec) == xmldb_get_prune(xmldb_get_each(db, pairs, <<>>), xvec)

xmldb_get_vec_all(a, xvec) ==
    IF a.retval < 0 THEN Sel("xmldb_get_vec", -1, a.err, <<>>, a.xt, {}, <<>>)
    ELSE xmldb_get_fill("xmldb_get_vec", a.xt, xvec, SetToSeq(1..Len(a.xt)),
                        xmldb_get_sanity(xml_apply_default(a.xt, 1)))

\* xmldb_get_vec(dbname, xpath, yspec, &xtop, &xvec, &xlen): the whole
\* tree, with its defaults, and the elements the xpath gave
xmldb_get_vec(db, pairs, xvec) == xmldb_get_vec_all(xmldb_get_each(db, pairs, <<>>), xvec)

(* ------------------------------------------------------------------ *)
(* The inputs: values, edit trees, keys, startup datastores           *)
(* ------------------------------------------------------------------ *)
\* the key values and the value of xmldb_put_xkey; one is a prefix of the
\* other
Vals == {<<"1">>, <<"1", "0">>}

\* the texts of the key leaves and leaf-list entries of an edit tree
KeyVals == {<<"1">>}

\* the texts of the leaves that are no key: empty, or a text
LeafVals == {NULL, <<"1", "0">>}

\* the operation argument of xmldb_put and xmldb_put_xkey
Ops == {"OP_MERGE", "OP_REPLACE", "OP_CREATE", "OP_DELETE", "OP_REMOVE", "OP_NONE"}

\* the values of an operation attribute: the five of get_operation and
\* one it does not know
Attrs == {<<"merge">>, <<"replace">>, <<"create">>, <<"delete">>, <<"remove">>, <<"bogus">>}

\* the yang statement an element of an edit tree resolves to, as xmldb_put
\* and put resolve it by name from the top; 0 when the name is unknown
RECURSIVE Resolve(_, _)
Resolve(xt, i) ==
    IF xt[i].up = 0 THEN yang_find_topnode(xt[i].name)
    ELSE IF Resolve(xt, xt[i].up) = 0 THEN 0
    ELSE yang_find_syntax(Resolve(xt, xt[i].up), xt[i].name)

\* the names an element below up may have: the data nodes the schema
\* declares there and one name it does not declare; nothing below a leaf
\* or a leaf-list entry
ChildNames(xt, up) ==
    LET yn == IF up = 0 THEN 1 ELSE Resolve(xt, up)
    IN  IF yn = 0 \/ Yang[yn].ys_keyword \in {"Y_LEAF", "Y_LEAF_LIST"} THEN {}
        ELSE {Yang[y].ys_argument :
                  y \in {y \in YangIds : DataParent(y) = yn
                                         /\ Yang[y].ys_keyword \in DataKeywords}}
             \cup {<<"z">>}

\* the bodies an element called name below up may have: a leaf-list entry
\* and a key leaf have a text, another leaf has a text or is empty, the
\* others have no body
Bodies(xt, up, name) ==
    LET yn == IF up = 0 THEN 1 ELSE Resolve(xt, up)
        y  == IF yn = 1 THEN yang_find_topnode(name) ELSE yang_find_syntax(yn, name)
    IN  IF y = 0 THEN {NULL}
        ELSE IF Yang[y].ys_keyword = "Y_LEAF_LIST" THEN KeyVals
        ELSE IF Yang[y].ys_keyword = "Y_LEAF"
        THEN IF yang_key_match(yn, name) THEN KeyVals ELSE LeafVals
        ELSE {NULL}

NAttrs(xt) == Cardinality({i \in 1..Len(xt) : xt[i].attr # NULL})

\* the startup configurations: trees merged into an empty datastore
\* before the first call
Startup ==
    { << Cx(0, <<"a">>, NULL, 0, NULL), Cx(1, <<"b">>, <<"1">>, 0, NULL),
         Cx(0, <<"c">>, NULL, 0, NULL),
         Cx(3, <<"l">>, <<"1">>, 0, NULL),
         Cx(3, <<"x">>, NULL, 0, NULL),
         Cx(5, <<"k">>, <<"1">>, 0, NULL), Cx(5, <<"v">>, <<"1">>, 0, NULL),
         Cx(3, <<"x">>, NULL, 0, NULL),
         Cx(8, <<"k">>, <<"1", "0">>, 0, NULL) >>,
      << Cx(0, <<"c">>, NULL, 0, NULL),
         Cx(1, <<"y">>, NULL, 0, NULL),
         Cx(2, <<"p">>, <<"1">>, 0, NULL), Cx(2, <<"q">>, <<"1">>, 0, NULL) >> }

StartupDbs == {EmptyDb} \cup {xmldb_put(EmptyDb, t, "OP_MERGE").db : t \in Startup}

\* the value vectors of a format: the cli string, then one value for
\* each %s
RECURSIVE ValueVecs(_)
ValueVecs(n) ==
    IF n = 0 THEN {<< <<"cli">> >>}
    ELSE {Append(v, a) : v \in ValueVecs(n - 1), a \in Vals}

NWild(fmt) == Cardinality({i \in 1..Len(fmt) : fmt[i] = "%"})

\* the keys handed to xmldb_put_xkey: every format of the schema with its
\* placeholders given values, and a key with a name the schema lacks
XmlKeys ==
    UNION {{xmlkeyfmt2key(yang2xmlkeyfmt(y), cvv).xk :
               cvv \in ValueVecs(NWild(yang2xmlkeyfmt(y)))} :
           y \in {y \in YangIds : Yang[y].ys_keyword \in DataKeywords}}
    \cup {<<"/", "a", "/", "z">>}

(* ------------------------------------------------------------------ *)
(* The order of a scan                                                *)
(* ------------------------------------------------------------------ *)
Alphabet == <<"/", "0", "1", "2", "4", "a", "b", "c", "d", "k", "l", "n", "p", "q",
              "t", "v", "x", "y", "z">>

Rank(c) == CHOOSE i \in 1..Len(Alphabet) : Alphabet[i] = c

\* the byte order of two keys
RECURSIVE KeyLess(_, _)
KeyLess(a, b) ==
    IF a = <<>> THEN b # <<>>
    ELSE IF b = <<>> THEN FALSE
    ELSE IF Head(a) = Head(b) THEN KeyLess(Tail(a), Tail(b))
    ELSE Rank(Head(a)) < Rank(Head(b))

RECURSIVE Sorted(_)
Sorted(keys) ==
    IF keys = {} THEN <<>>
    ELSE LET k == CHOOSE k \in keys : \A j \in keys \ {k} : KeyLess(k, j)
         IN  <<k>> \o Sorted(keys \ {k})

\* every order of a set of keys
RECURSIVE Perms(_)
Perms(keys) ==
    IF keys = {} THEN {<<>>}
    ELSE UNION {{<<k>> \o q : q \in Perms(keys \ {k})} : k \in keys}

\* db_regexp(dbname, "", ...) of a sorted store: the pairs in key order
ScanOrders(db) == {Sorted(DOMAIN db)}

\* the datastores the assembler is run on: at most MaxPairs pairs, every
\* key a format of the schema with its placeholders given values
GrammarKeys == XmlKeys \ {<<"/", "a", "/", "z">>}

StoredVals == {NULL, <<"1">>}

RECURSIVE PairSets(_)
PairSets(n) ==
    IF n = 0 THEN {EmptyDb}
    ELSE PairSets(n - 1) \cup
         {db_set(d, k, v) : d \in PairSets(n - 1), k \in GrammarKeys, v \in StoredVals}

(* ------------------------------------------------------------------ *)
(* The client side of the internal protocol (clixon_proto_client.c):  *)
(* the handle's cached session id and socket, and the requests the    *)
(* RPC functions exchange with the backend                            *)
(* ------------------------------------------------------------------ *)
\* the session ids the backend hands out in a hello reply: 0..MaxSession
SessionIds == 0..MaxSession

\* the descriptors connect can give: MaxSock of them, from 3 up
Socks == 3..(2 + MaxSock)

\* the client handle: clicon_session_id_get and clicon_client_socket_get
\* give -1 while nothing is set
Handle(session_id, sock) == [session_id |-> session_id, sock |-> sock]

NoHandle == Handle(-1, -1)

\* what the backend sends back to one request: nothing usable (the
\* exchange of clicon_rpc fails), a text that is no XML, an rpc-error, a
\* reply without error and without session-id, a hello with a session-id
\* that is no number, a hello with the session-id id
Reply(kind, id) == [kind |-> kind, id |-> id]

NoReply == Reply("none", 0)

Replies ==
    {Reply(k, 0) : k \in {"fail", "garbage", "rpc-error", "ok", "hello-bad"}}
    \cup {Reply("hello", id) : id \in SessionIds}

\* what the environment does for one call of clicon_rpc_msg: the socket
\* connect gives (-1: connect fails) and the reply of the backend
Env(s, reply) == [s |-> s, reply |-> reply]

Envs == {Env(s, r) : s \in {-1} \cup Socks, r \in Replies}

\* one step on the wire: a connect that gave socket s, a request msg
\* carrying session id id written to socket s and answered by reply, a
\* close of socket s
Ev(ev, s, msg, id, reply) == [ev |-> ev, s |-> s, msg |-> msg, id |-> id, reply |-> reply]

\* the client while a call runs: its handle, the sockets of the process
\* that are connected, and the steps of the call so far
Client(hd, open, w) == [h |-> hd, open |-> open, wire |-> w]

Conn(retval, c, s) == [retval |-> retval, c |-> c, s |-> s]

Msg(retval, c, reply) == [retval |-> retval, c |-> c, reply |-> reply]

Chk(retval, c, id) == [retval |-> retval, c |-> c, id |-> id]

Rpc(retval, c) == [retval |-> retval, c |-> c]

\* clicon_rpc_connect(h, &s)
clicon_rpc_connect(c, e) ==
    IF e.s < 0
    THEN Conn(-1, [c EXCEPT !.wire = Append(@, Ev("connect", -1, "", 0, NoReply))], -1)
    ELSE Conn(0, [c EXCEPT !.open = @ \cup {e.s},
                           !.wire = Append(@, Ev("connect", e.s, "", 0, NoReply))], e.s)

\* clicon_rpc(s, msg, &retdata) and the parse of retdata
clicon_rpc_msg_send(c, msg, id, e) ==
    IF e.reply.kind \in {"fail", "garbage"}
    THEN Msg(-1, [c EXCEPT !.wire = Append(@, Ev("rpc", c.h.sock, msg, id, e.reply))],
             NoReply)
    ELSE Msg(0, [c EXCEPT !.wire = Append(@, Ev("rpc", c.h.sock, msg, id, e.reply))],
             e.reply)

\* clicon_rpc_msg after clicon_rpc_connect: clicon_client_socket_set(h, s)
clicon_rpc_msg_connected(r, msg, id, e) ==
    IF r.retval < 0 THEN Msg(-1, r.c, NoReply)
    ELSE clicon_rpc_msg_send([r.c EXCEPT !.h.sock = r.s], msg, id, e)

\* a clicon_rpc_msg that connects for every message
clicon_rpc_msg_connect(c, msg, id, e) ==
    clicon_rpc_msg_connected(clicon_rpc_connect(c, e), msg, id, e)

\* clicon_rpc_msg(h, msg, &xret, NULL)
clicon_rpc_msg(c, msg, id, e) ==
    IF c.h.sock < 0
    THEN clicon_rpc_msg_connected(clicon_rpc_connect(c, e), msg, id, e)
    ELSE clicon_rpc_msg_send(c, msg, id, e)

\* clicon_hello_req after clicon_rpc_msg: the rpc-error, the session-id
\* and parse_uint32 of its body
clicon_hello_reply(m) ==
    IF m.retval < 0 THEN Chk(-1, m.c, 0)
    ELSE IF m.reply.kind = "rpc-error" THEN Chk(-1, m.c, 0)
    ELSE IF m.reply.kind \notin {"hello", "hello-bad"} THEN Chk(-1, m.c, 0)
    ELSE IF m.reply.kind = "hello-bad" THEN Chk(-1, m.c, 0)
    ELSE Chk(0, m.c, m.reply.id)

\* clicon_hello_req(h, &id)
clicon_hello_req(c, e) == clicon_hello_reply(clicon_rpc_msg(c, "hello", 0, e))

\* session_id_check after clicon_hello_req: clicon_session_id_set(h, id)
session_id_set(r) ==
    IF r.retval < 0 THEN Chk(-1, r.c, 0)
    ELSE Chk(0, [r.c EXCEPT !.h.session_id = r.id], r.id)

\* a session_id_check that asks the backend on every call
session_id_check_eager(c, e) == session_id_set(clicon_hello_req(c, e))

\* session_id_check(h, &session_id)
session_id_check(c, e) ==
    IF c.h.session_id < 0 THEN session_id_set(clicon_hello_req(c, e))
    ELSE Chk(0, c, c.h.session_id)

\* the end of an RPC function: -1 when clicon_rpc_msg fails or the reply
\* has an rpc-error
clicon_rpc_reply(m) ==
    IF m.retval < 0 THEN Rpc(-1, m.c)
    ELSE IF m.reply.kind = "rpc-error" THEN Rpc(-1, m.c)
    ELSE Rpc(0, m.c)

\* an RPC function after session_id_check: the request msg is encoded
\* with the session id and handed to clicon_rpc_msg
clicon_rpc_checked(msg, k, e) ==
    IF k.retval < 0 THEN Rpc(-1, k.c)
    ELSE clicon_rpc_reply(clicon_rpc_msg(k.c, msg, k.id, e))

\* clicon_rpc_edit_config(h, db, op, xmlstr)
clicon_rpc_edit_config(c, e1, e2) ==
    clicon_rpc_checked("edit-config", session_id_check(c, e1), e2)

\* clicon_rpc_lock(h, db)
clicon_rpc_lock(c, e1, e2) ==
    clicon_rpc_checked("lock", session_id_check(c, e1), e2)

\* clicon_rpc_unlock(h, db)
clicon_rpc_unlock(c, e1, e2) ==
    clicon_rpc_checked("unlock", session_id_check(c, e1), e2)

\* clicon_rpc_commit(h)
clicon_rpc_commit(c, e1, e2) ==
    clicon_rpc_checked("commit", session_id_check(c, e1), e2)

\* the end of clicon_rpc_get_config: an rpc-error is handed to the caller
\* as the tree, with retval 0
clicon_rpc_get_config_reply(m) ==
    IF m.retval < 0 THEN Rpc(-1, m.c) ELSE Rpc(0, m.c)

clicon_rpc_get_config_checked(k, e) ==
    IF k.retval < 0 THEN Rpc(-1, k.c)
    ELSE clicon_rpc_get_config_reply(clicon_rpc_msg(k.c, "get-config", k.id, e))

\* clicon_rpc_get_config(h, username, db, xpath, nsc, &xt)
clicon_rpc_get_config(c, e1, e2) ==
    clicon_rpc_get_config_checked(session_id_check(c, e1), e2)

\* close(s) and clicon_client_socket_set(h, -1) of a cached socket
close_socket(c) ==
    IF c.h.sock >= 0
    THEN [c EXCEPT !.open = @ \ {c.h.sock},
                   !.wire = Append(@, Ev("close", c.h.sock, "", 0, NoReply)),
                   !.h.sock = -1]
    ELSE c

\* the end of clicon_rpc_close_session: the socket is closed, then the
\* reply is looked at
clicon_rpc_close_session_reply(m) ==
    IF m.retval < 0 THEN Rpc(-1, m.c)
    ELSE IF m.reply.kind = "rpc-error" THEN Rpc(-1, close_socket(m.c))
    ELSE Rpc(0, close_socket(m.c))

clicon_rpc_close_session_checked(k, e) ==
    IF k.retval < 0 THEN Rpc(-1, k.c)
    ELSE clicon_rpc_close_session_reply(clicon_rpc_msg(k.c, "close-session", k.id, e))

\* clicon_rpc_close_session(h)
clicon_rpc_close_session(c, e1, e2) ==
    clicon_rpc_close_session_checked(session_id_check(c, e1), e2)

\* the RPC functions that leave the socket as it is
RpcNames == {"get-config", "edit-config", "lock", "unlock", "commit"}

RpcCall(fn, c, e1, e2) ==
    CASE fn = "get-config" -> clicon_rpc_get_config(c, e1, e2)
      [] fn = "edit-config" -> clicon_rpc_edit_config(c, e1, e2)
      [] fn = "lock" -> clicon_rpc_lock(c, e1, e2)
      [] fn = "unlock" -> clicon_rpc_unlock(c, e1, e2)
      [] fn = "commit" -> clicon_rpc_commit(c, e1, e2)
      [] fn = "close-session" -> clicon_rpc_close_session(c, e1, e2)

(* ------------------------------------------------------------------ *)
(* The state machine                                                  *)
(* ------------------------------------------------------------------ *)
VARIABLES
    db,     \* the datastore: the pairs of the key/value file
    xin,    \* the edit tree the client is composing for xmldb_put
    pc,     \* "edit": composing a call; "done": a mutation returned;
            \* "read": xmldb_get returned
    call,   \* the last mutation: function, arguments, datastore before
            \* it, outcome
    res,    \* what the last xmldb_get returned
    h,      \* the client handle: cached session id and socket
    wire,   \* the connects, requests and closes of the last RPC call
    net     \* the connected sockets of the client process and the session
            \* id the last answered hello gave

vars == <<db, xin, pc, call, res, h, wire, net>>

NoNet == [open |-> {}, hello |-> -1]

\* the session id of the last hello of the steps w that the backend
\* answered with a session id, or old when there is none
RECURSIVE HelloGiven(_, _)
HelloGiven(w, old) ==
    IF w = <<>> THEN old
    ELSE IF w[Len(w)].msg = "hello" /\ w[Len(w)].reply.kind = "hello"
         THEN w[Len(w)].reply.id
         ELSE HelloGiven(SubSeq(w, 1, Len(w) - 1), old)

NoCall ==
    [fn |-> "none", op |-> "OP_NONE", xt |-> <<>>, xk |-> <<>>, val |-> NULL,
     db0 |-> EmptyDb, out |-> Outcome(EmptyDb), again |-> FALSE]

NoRes == Got(0, "none", <<>>)

Init ==
    /\ db \in StartupDbs
    /\ xin = <<>>
    /\ pc = "edit"
    /\ call = NoCall
    /\ res = NoRes
    /\ h = NoHandle
    /\ wire = <<>>
    /\ net = NoNet

\* the client appends the next element, in document order, to an edit tree
\* of less than max elements
Add(max) ==
    /\ pc = "edit"
    /\ Len(xin) < max
    /\ \E up \in Ancestors(xin, Len(xin)) :
       /\ up = 0 => Cardinality(Children(xin, 0)) < MaxTop
       /\ \E name \in ChildNames(xin, up) :
            \E body \in Bodies(xin, up, name) :
              \E attr \in {NULL} \cup (IF NAttrs(xin) < MaxAttrs THEN Attrs ELSE {}) :
                xin' = Append(xin, Cx(up, name, body, 0, attr))
    /\ UNCHANGED <<db, pc, call, res, h, wire, net>>

AddNode == Add(MaxNodes)

AddDeep == Add(MaxDeep)

\* xmldb_put(db, xin, yspec, op)
Put(op) ==
    /\ pc = "edit"
    /\ xin # <<>>
    /\ db' = xmldb_put(db, xin, op).db
    /\ call' = [fn |-> "xmldb_put", op |-> op, xt |-> xin, xk |-> <<>>,
                val |-> NULL, db0 |-> db, out |-> xmldb_put(db, xin, op), again |-> FALSE]
    /\ pc' = "done"
    /\ UNCHANGED <<xin, res, h, wire, net>>

Call_xmldb_put == \E op \in Ops : Put(op)

Call_xmldb_put_merge == Put("OP_MERGE")

\* xmldb_put_xkey(db, xk, val, yspec, op)
Call_xmldb_put_xkey ==
    /\ pc = "edit"
    /\ xin = <<>>
    /\ \E xk \in XmlKeys, val \in Vals, op \in Ops :
          /\ db' = xmldb_put_xkey(db, xk, val, op).db
          /\ call' = [fn |-> "xmldb_put_xkey", op |-> op, xt |-> <<>>, xk |-> xk,
                      val |-> val, db0 |-> db, out |-> xmldb_put_xkey(db, xk, val, op),
                      again |-> FALSE]
    /\ pc' = "done"
    /\ UNCHANGED <<xin, res, h, wire, net>>

\* the same xmldb_put once more, on the datastore the first one left
Call_xmldb_put_again ==
    /\ pc = "done"
    /\ call.fn = "xmldb_put"
    /\ ~call.again
    /\ db' = xmldb_put(db, call.xt, call.op).db
    /\ call' = [call EXCEPT !.db0 = db, !.out = xmldb_put(db, call.xt, call.op),
                            !.again = TRUE]
    /\ UNCHANGED <<xin, pc, res, h, wire, net>>

\* xmldb_get(db, NULL, yspec, &xtop), the scan giving the pairs in one of
\* the orders
Read(orders) ==
    /\ pc = "done"
    /\ \E pairs \in orders : res' = xmldb_get(db, pairs)
    /\ pc' = "read"
    /\ UNCHANGED <<db, xin, call, h, wire, net>>

Call_xmldb_get == Read(ScanOrders(db))

Call_xmldb_get_scan == Read(Perms(DOMAIN db))

\* edit trees and keys applied to a startup datastore, then read back
Next ==
    \/ AddNode
    \/ Call_xmldb_put
    \/ Call_xmldb_put_xkey
    \/ Call_xmldb_get

Spec == Init /\ [][Next]_vars

\* a merge of a deeper edit tree, applied twice
NextMerge ==
    \/ AddDeep
    \/ Call_xmldb_put_merge
    \/ Call_xmldb_put_again

SpecMerge == Init /\ [][NextMerge]_vars

\* the assembly of a stored set of pairs, scanned in any order
InitAsm ==
    /\ db \in PairSets(MaxPairs)
    /\ xin = <<>>
    /\ pc = "done"
    /\ call = NoCall
    /\ res = NoRes
    /\ h = NoHandle
    /\ wire = <<>>
    /\ net = NoNet

NextAsm == Call_xmldb_get_scan

SpecAsm == InitAsm /\ [][NextAsm]_vars

\* the node sets xpath_vec can give on a tree: at most MaxMarks elements
XpathVecs(xt) == {V \in SUBSET (1..Len(xt)) : Cardinality(V) <= MaxMarks}

\* xmldb_get(db, xpath, yspec, &xtop)
Call_xmldb_get_xpath ==
    /\ pc = "done"
    /\ \E pairs \in ScanOrders(db) :
         \E xvec \in XpathVecs(xmldb_get_each(db, pairs, <<>>).xt) :
            res' = xmldb_get_xpath(db, pairs, xvec)
    /\ pc' = "read"
    /\ UNCHANGED <<db, xin, call, h, wire, net>>

\* xmldb_get_vec(db, xpath, yspec, &xtop, &xvec, &xlen)
Call_xmldb_get_vec ==
    /\ pc = "done"
    /\ \E pairs \in ScanOrders(db) :
         \E xvec \in XpathVecs(xmldb_get_each(db, pairs, <<>>).xt) :
            res' = xmldb_get_vec(db, pairs, xvec)
    /\ pc' = "read"
    /\ UNCHANGED <<db, xin, call, h, wire, net>>

\* a read with an xpath of a stored set of pairs
InitRead ==
    /\ db \in PairSets(MaxPairs) \cup StartupDbs
    /\ xin = <<>>
    /\ pc = "done"
    /\ call = NoCall
    /\ res = NoRes
    /\ h = NoHandle
    /\ wire = <<>>
    /\ net = NoNet

NextRead ==
    \/ Call_xmldb_get_xpath
    \/ Call_xmldb_get_vec

SpecRead == InitRead /\ [][NextRead]_vars

\* the vectors of values handed to xmlkeyfmt2key: the cli string, then
\* less than MaxVec values
RECURSIVE CliVecs(_)
CliVecs(n) ==
    IF n <= 1 THEN {<< <<"cli">> >>}
    ELSE CliVecs(n - 1) \cup {Append(v, a) : v \in CliVecs(n - 1), a \in Vals}

\* the statements a key format is made for: the data nodes, and the
\* choices and cases
FmtNodes == {y \in YangIds : Yang[y].ys_keyword \in DataKeywords \cup {"Y_CHOICE", "Y_CASE"}}

\* yang2xmlkeyfmt(ys, &xkfmt)
Call_yang2xmlkeyfmt ==
    /\ pc = "edit"
    /\ \E ys \in FmtNodes :
          call' = [fn |-> "yang2xmlkeyfmt", ys |-> ys, xkfmt |-> yang2xmlkeyfmt(ys)]
    /\ pc' = "fmt"
    /\ UNCHANGED <<db, xin, res, h, wire, net>>

\* xmlkeyfmt2key(xkfmt, cvv, &xk) on the format yang2xmlkeyfmt gave
Call_xmlkeyfmt2key ==
    /\ pc = "fmt"
    /\ \E cvv \in CliVecs(MaxVec) :
          res' = [fn |-> "xmlkeyfmt2key", xkfmt |-> call.xkfmt, cvv |-> cvv,
                  out |-> xmlkeyfmt2key(call.xkfmt, cvv)]
    /\ pc' = "key"
    /\ UNCHANGED <<db, xin, call, h, wire, net>>

\* the key formats of the schema and the keys made from them
InitFmt ==
    /\ db = EmptyDb
    /\ xin = <<>>
    /\ pc = "edit"
    /\ call = NoCall
    /\ res = NoRes
    /\ h = NoHandle
    /\ wire = <<>>
    /\ net = NoNet

NextFmt ==
    \/ Call_yang2xmlkeyfmt
    \/ Call_xmlkeyfmt2key

SpecFmt == InitFmt /\ [][NextFmt]_vars

\* what the environment does during one call of an RPC function: e1 for
\* the hello, e2 for the request.  A connect gives a descriptor that is
\* not connected; a choice the call does not come to look at is left at
\* its first value
Unused == Env(-1, Reply("fail", 0))

CallEnvs(hd, open) ==
    {e \in Envs \X Envs :
        /\ e[1].s \notin open
        /\ e[2].s \notin open
        /\ hd.session_id >= 0 => e[1] = Unused
        /\ (hd.sock >= 0 \/ hd.session_id < 0) => e[2].s = -1}

\* one call of the RPC function fn on the handle, r what it gives
ClientStep(fn, r) ==
    /\ h' = r.c.h
    /\ wire' = r.c.wire
    /\ net' = [open |-> r.c.open, hello |-> HelloGiven(r.c.wire, net.hello)]
    /\ call' = [fn |-> fn, h0 |-> h, net0 |-> net, retval |-> r.retval]
    /\ UNCHANGED <<db, xin, pc, res>>

\* clicon_rpc_get_config, clicon_rpc_edit_config, clicon_rpc_lock,
\* clicon_rpc_unlock, clicon_rpc_commit
Call_clicon_rpc ==
    /\ pc = "rpc"
    /\ \E fn \in RpcNames, e \in CallEnvs(h, net.open) :
          ClientStep(fn, RpcCall(fn, Client(h, net.open, <<>>), e[1], e[2]))

\* clicon_rpc_close_session(h)
Call_clicon_rpc_close_session ==
    /\ pc = "rpc"
    /\ \E e \in CallEnvs(h, net.open) :
          ClientStep("close-session",
                     clicon_rpc_close_session(Client(h, net.open, <<>>), e[1], e[2]))

\* a client handle after clicon_handle_init: no session id, no socket
InitClient ==
    /\ db = EmptyDb
    /\ xin = <<>>
    /\ pc = "rpc"
    /\ call = NoCall
    /\ res = NoRes
    /\ h = NoHandle
    /\ wire = <<>>
    /\ net = NoNet

NextClient ==
    \/ Call_clicon_rpc
    \/ Call_clicon_rpc_close_session

SpecClient == InitClient /\ [][NextClient]_vars

\* the keys that overlap a stored key: the stored keys and the keys of the
\* schema above them
Overlaps(d) ==
    {k \in GrammarKeys : \E k1 \in DOMAIN d : k = k1 \/ IsPrefix(k \o <<"/">>, k1)}

\* the value get is handed with key k: the stored one, none for a key
\* that is not stored
ValueOf(d, k) == IF k \in DOMAIN d THEN d[k] ELSE NULL

\* what a second get on the assembled tree gives: the tree before it, the
\* pair, the outcome
Again(xt0, xk, val) == [fn |-> "get", xt0 |-> xt0, xk |-> xk, val |-> val, out |-> get(xt0, xk, val)]

\* the loop of xmldb_get over the stored pairs, then get once more with a
\* pair whose key is one of them or lies above one of them
Call_get_again ==
    /\ pc = "done"
    /\ \E pairs \in ScanOrders(db) :
          /\ xmldb_get_each(db, pairs, <<>>).retval = 0
          /\ \E xk \in Overlaps(db) :
                res' = Again(xmldb_get_each(db, pairs, <<>>).xt, xk, ValueOf(db, xk))
    /\ pc' = "read"
    /\ UNCHANGED <<db, xin, call, h, wire, net>>

NextAgain == Call_get_again

SpecAgain == InitAsm /\ [][NextAgain]_vars

(* ------------------------------------------------------------------ *)
(* What the properties speak of: the operation in force at a node, the *)
(* key of a node, the effect the nodes before a node have, trees up to *)
(* the order of siblings                                               *)
(* ------------------------------------------------------------------ *)
\* the operation an attribute value stands for
OpOfAttr(attr) ==
    CASE attr = <<"merge">>   -> "OP_MERGE"
      [] attr = <<"replace">> -> "OP_REPLACE"
      [] attr = <<"create">>  -> "OP_CREATE"
      [] attr = <<"delete">>  -> "OP_DELETE"
      [] attr = <<"remove">>  -> "OP_REMOVE"
      [] OTHER                -> "OP_BAD"

\* the effective operation of node i: its own attribute, else that of the
\* nearest ancestor with one, else the op argument
RECURSIVE EffOp(_, _, _)
EffOp(xt, i, op) ==
    IF xt[i].attr # NULL THEN OpOfAttr(xt[i].attr)
    ELSE IF xt[i].up = 0 THEN op
    ELSE EffOp(xt, xt[i].up, op)

\* the names of the key leaves of the list statement y
KeyNames(y) == yang_arg2cvec(yang_find(y, "Y_KEY"))

IsList(y) == y # 0 /\ Yang[y].ys_keyword = "Y_LIST"

\* a list entry carries all its key leaves
HasKeys(xt, i) ==
    IsList(Resolve(xt, i)) =>
        \A n \in 1..Len(KeyNames(Resolve(xt, i))) :
            xml_find(xt, i, KeyNames(Resolve(xt, i))[n]) # 0

\* "/<value>" for each key leaf of the list entry i
RECURSIVE KeyPart(_, _, _)
KeyPart(xt, i, names) ==
    IF names = <<>> THEN <<>>
    ELSE <<"/">> \o xt[xml_find(xt, i, Head(names))].body \o KeyPart(xt, i, Tail(names))

\* the key of node i by the key grammar: the key of its parent, its name,
\* the key values of a list entry, the value of a leaf-list entry
RECURSIVE NodeKey(_, _)
NodeKey(xt, i) ==
    (IF xt[i].up = 0 THEN <<>> ELSE NodeKey(xt, xt[i].up))
    \o <<"/">> \o xt[i].name
    \o (IF IsList(Resolve(xt, i)) /\ HasKeys(xt, i)
        THEN KeyPart(xt, i, KeyNames(Resolve(xt, i)))
        ELSE IF Resolve(xt, i) # 0 /\ Yang[Resolve(xt, i)].ys_keyword = "Y_LEAF_LIST"
        THEN <<"/">> \o xt[i].body
        ELSE <<>>)

\* node i resolves against the schema, with its key leaves and an operation
Bound(xt, i, op) ==
    /\ Resolve(xt, i) # 0
    /\ HasKeys(xt, i)
    /\ EffOp(xt, i, op) \in Ops

\* the write of node i alone, by its effective operation
ApplyNode(d, xt, i, op) ==
    IF EffOp(xt, i, op) \in {"OP_MERGE", "OP_REPLACE", "OP_CREATE"}
    THEN db_set(d, NodeKey(xt, i), xt[i].body)
    ELSE IF EffOp(xt, i, op) \in {"OP_DELETE", "OP_REMOVE"}
    THEN db_del(d, NodeKey(xt, i))
    ELSE d

\* the datastore d after the writes of the nodes 1..n in document order
RECURSIVE Effect(_, _, _, _)
Effect(d, xt, n, op) ==
    IF n = 0 THEN d ELSE ApplyNode(Effect(d, xt, n - 1, op), xt, n, op)

\* the datastore the walk of a call starts on
StartDb(c) == IF c.op = "OP_REPLACE" THEN EmptyDb ELSE c.db0

\* the last node the walk of a call came to
Reached(c) == IF c.out.retval < 0 THEN c.out.at ELSE Len(c.xt)

\* a leaf holding the default of its schema node
IsDefaultLeaf(xt, i) ==
    /\ Resolve(xt, i) # 0
    /\ Yang[Resolve(xt, i)].ys_cv # NULL
    /\ xt[i].body = Yang[Resolve(xt, i)].ys_cv

\* a tree up to the order of siblings and up to default leaves
RECURSIVE Canon(_, _)
Canon(xt, i) ==
    [name |-> xt[i].name, body |-> xt[i].body,
     n    |-> Cardinality({j \in Children(xt, i) : ~IsDefaultLeaf(xt, j)}),
     kids |-> {Canon(xt, j) : j \in {j \in Children(xt, i) : ~IsDefaultLeaf(xt, j)}}]

CanonTop(xt) ==
    [n    |-> Cardinality(Children(xt, 0)),
     kids |-> {Canon(xt, j) : j \in Children(xt, 0)}]

\* an edit tree that is schema-valid: every element resolves, every list
\* entry has its key leaves, no two elements have the same key, and no
\* element has an operation attribute
SchemaValid(xt) ==
    /\ \A i \in 1..Len(xt) : Resolve(xt, i) # 0 /\ HasKeys(xt, i) /\ xt[i].attr = NULL
    /\ \A i, j \in 1..Len(xt) : i # j => NodeKey(xt, i) # NodeKey(xt, j)

NoDefaulted(xt) == \A i \in 1..Len(xt) : Yang[Resolve(xt, i)].ys_cv = NULL

\* the keys of the schema nodes with one of the keywords
KeysOf(kws) ==
    UNION {{xmlkeyfmt2key(yang2xmlkeyfmt(y), cvv).xk :
               cvv \in ValueVecs(NWild(yang2xmlkeyfmt(y)))} :
           y \in {y \in YangIds : Yang[y].ys_keyword \in kws}}

\* the keys through containers only, to a container or a leaf
PlainKeys ==
    {xmlkeyfmt2key(yang2xmlkeyfmt(y), << <<"cli">> >>).xk :
        y \in {y \in YangIds : /\ Yang[y].ys_keyword \in {"Y_CONTAINER", "Y_LEAF"}
                               /\ NWild(yang2xmlkeyfmt(y)) = 0}}

\* the keys that end in the name of a key leaf of a list
KeyLeafKeys ==
    UNION {{xmlkeyfmt2key(yang2xmlkeyfmt(y), cvv).xk :
               cvv \in ValueVecs(NWild(yang2xmlkeyfmt(y)))} :
           y \in {y \in YangIds : /\ Yang[y].ys_keyword = "Y_LEAF"
                                  /\ IsList(Yang[y].ys_parent)
                                  /\ yang_key_match(Yang[y].ys_parent, Yang[y].ys_argument)}}

\* a key without its last component (the names of the schema have one
\* character)
EntryKey(xk) == SubSeq(xk, 1, Len(xk) - 2)

\* the pairs at key or below it
AtOrBelow(d, key) == {k \in DOMAIN d : k = key \/ IsPrefix(key \o <<"/">>, k)}

PutCall == call.fn = "xmldb_put"

XkeyCall == call.fn = "xmldb_put_xkey"

(* ------------------------------------------------------------------ *)
(* Properties                                                         *)
(* ------------------------------------------------------------------ *)

\* C1: round trip.  A schema-valid edit tree without defaulted leaf, merged
\* into an empty datastore and read back by xmldb_get, comes back as the
\* same tree up to default leaves and the order of siblings.
C1_RoundTrip ==
    ( /\ pc = "read"
      /\ PutCall
      /\ call.op = "OP_MERGE"
      /\ call.db0 = EmptyDb
      /\ SchemaValid(call.xt)
      /\ NoDefaulted(call.xt) )
    => ( /\ call.out.retval = 0
         /\ res.retval = 0
         /\ CanonTop(res.xtop) = CanonTop(call.xt) )

\* C2: in the tree walk, a node with effective operation create whose key
\* exists fails with CreateExists, a node with effective operation delete
\* whose key does not exist fails with DeleteMissing, and in both cases the
\* node makes no call on the key/value store: the datastore is as the nodes
\* before it left it.
C2_Preconditions ==
    PutCall =>
    \A i \in 1..Reached(call) :
        ( /\ Bound(call.xt, i, call.op)
          /\ \/ /\ EffOp(call.xt, i, call.op) = "OP_CREATE"
                /\ NodeKey(call.xt, i) \in DOMAIN Effect(StartDb(call), call.xt, i - 1, call.op)
             \/ /\ EffOp(call.xt, i, call.op) = "OP_DELETE"
                /\ NodeKey(call.xt, i) \notin DOMAIN Effect(StartDb(call), call.xt, i - 1, call.op) )
        => ( /\ call.out.retval < 0
             /\ call.out.at = i
             /\ call.out.err = (IF EffOp(call.xt, i, call.op) = "OP_CREATE"
                                THEN "CreateExists" ELSE "DeleteMissing")
             /\ \A n \in 1..Len(call.out.log) : call.out.log[n].node # i
             /\ db = Effect(StartDb(call), call.xt, i - 1, call.op) )

\* a walk that failed with CreateExists below the first node, after writes
\* that changed the datastore
C2_Witness ==
    /\ PutCall
    /\ call.out.err = "CreateExists"
    /\ call.out.at > 1
    /\ db # call.db0

\* C3: xmldb_put_xkey with create on a key that exists (a key through
\* containers to a container or a leaf, as /a/b) fails with CreateExists
\* and leaves every pair of the datastore as it was.
C3_CreateExisting ==
    ( /\ XkeyCall
      /\ call.op = "OP_CREATE"
      /\ call.xk \in PlainKeys
      /\ call.xk \in DOMAIN call.db0 )
    => ( /\ call.out.retval < 0
         /\ call.out.err = "CreateExists"
         /\ db = call.db0 )

\* C4: xmldb_put_xkey with create on a key that does not exist, the key
\* going through containers to a leaf or a container, succeeds and the key
\* then holds the value given (no value for a container).
C4_CreateMissing ==
    ( /\ XkeyCall
      /\ call.op = "OP_CREATE"
      /\ call.xk \in PlainKeys
      /\ call.xk \notin DOMAIN call.db0 )
    => ( /\ call.out.retval = 0
         /\ call.xk \in DOMAIN db
         /\ db[call.xk] = (IF call.xk \in KeysOf({"Y_CONTAINER"}) THEN NULL ELSE call.val) )

\* C5: replace resets.  After a successful xmldb_put with op replace of a
\* schema-valid tree, xmldb_get gives that tree up to default leaves, and
\* every pair of the datastore was written by this put.
C5_ReplaceResets ==
    ( /\ pc = "read"
      /\ PutCall
      /\ call.op = "OP_REPLACE"
      /\ call.out.retval = 0
      /\ SchemaValid(call.xt) )
    => ( /\ res.retval = 0
         /\ CanonTop(res.xtop) = CanonTop(call.xt)
         /\ \A k \in DOMAIN db :
               \E n \in 1..Len(call.out.log) :
                   call.out.log[n].call = "db_set" /\ call.out.log[n].key = k )

\* C6 as stated: for any datastore and any edit tree, the second
\* xmldb_put with op merge leaves the pairs the first one left.
C6_MergeTwice == (PutCall /\ call.again) => db = call.db0

\* no element asks for create or delete
NoPrecondition(xt) ==
    \A i \in 1..Len(xt) : xt[i].attr \notin {<<"create">>, <<"delete">>}

\* C6, amended: for any datastore and any edit tree in which no element
\* has the operation attribute create or delete, the second xmldb_put with
\* op merge leaves the pairs the first one left, whether the puts succeed
\* or fail.
C6_MergeTwiceNoPrecondition ==
    (PutCall /\ call.again /\ NoPrecondition(call.xt)) => db = call.db0

\* a second merge of a tree of several elements, one with the attribute
\* remove, on a datastore the first merge had changed
C6_Witness ==
    /\ PutCall
    /\ call.again
    /\ call.out.retval = 0
    /\ NoPrecondition(call.xt)
    /\ \E i \in 1..Len(call.xt) : call.xt[i].attr = <<"remove">>
    /\ \E i \in 1..Len(call.xt) : call.xt[i].body # NULL
    /\ db = call.db0
    /\ db # EmptyDb

\* C7: in the tree walk, when the last element of the edit tree has the
\* effective operation delete or remove and the put succeeds, no pair whose
\* key starts with the key of that element is left, and a following
\* xmldb_get has no element with that key.
C7_DeleteSubtree ==
    ( /\ PutCall
      /\ call.out.retval = 0
      /\ Bound(call.xt, Len(call.xt), call.op)
      /\ EffOp(call.xt, Len(call.xt), call.op) \in {"OP_DELETE", "OP_REMOVE"} )
    => ( /\ db_regexp(db, NodeKey(call.xt, Len(call.xt))) = {}
         /\ (pc = "read" /\ res.retval = 0) =>
                \A j \in 1..Len(res.xtop) :
                    NodeKey(res.xtop, j) # NodeKey(call.xt, Len(call.xt)) )

\* C8: xmldb_put_xkey with delete or remove on a key that ends in the name
\* of a key leaf of a list leaves no pair at the key of the list entry or
\* below it.
C8_DeleteKeyLeaf ==
    ( /\ XkeyCall
      /\ call.op \in {"OP_DELETE", "OP_REMOVE"}
      /\ call.xk \in KeyLeafKeys )
    => AtOrBelow(db, EntryKey(call.xk)) = {}

\* C9: no rollback, abort at the first failure.  When the tree walk fails
\* at a node, the datastore holds the writes of the nodes before it in
\* document order, each by its effective operation, and the key/value store
\* was called for no other node.
C9_NoRollback ==
    (PutCall /\ call.out.retval < 0) =>
        /\ call.out.at \in 1..Len(call.xt)
        /\ db = Effect(StartDb(call), call.xt, call.out.at - 1, call.op)
        /\ \A n \in 1..Len(call.out.log) : call.out.log[n].node < call.out.at

\* a walk that failed at an element with elements before and after it,
\* the writes of the elements before it kept
C9_Witness ==
    /\ PutCall
    /\ call.out.retval < 0
    /\ call.out.at > 1
    /\ call.out.at < Len(call.xt)
    /\ call.out.log # <<>>
    /\ db # call.db0

\* the result of xmldb_get is schema-valid: every element is bound to the
\* yang statement of its name, every list entry has one child for each key
\* leaf
ResultValid(xt) ==
    \A x \in 1..Len(xt) :
        /\ xt[x].spec # 0
        /\ xt[x].name = Yang[xt[x].spec].ys_argument
        /\ IsList(xt[x].spec) =>
              \A n \in 1..Len(KeyNames(xt[x].spec)) :
                  Cardinality({j \in Children(xt, x) :
                                   xt[j].name = KeyNames(xt[x].spec)[n]}) = 1

\* C10: assembly determinism.  For a set of pairs with keys of the schema,
\* xmldb_get succeeds in every order of the scan, gives a schema-valid
\* tree, and gives the tree of the scan in key order up to the order of
\* siblings.
C10_AssemblyDeterminism ==
    pc = "read" =>
        /\ res.retval = 0
        /\ ResultValid(res.xtop)
        /\ CanonTop(res.xtop) = CanonTop(xmldb_get(db, Sorted(DOMAIN db)).xtop)

\* the elements of the assembled tree on the paths from the top to the
\* elements the xpath gave, these included
OnPath(r) == UNION {Ancestors(r.xt0, v) \ {0} : v \in r.xvec}

\* the element of the assembled tree that element k of the returned tree
\* is; 0 for an element made after the assembly
IdOf(r, k) == IF k >= 1 /\ k <= Len(r.ids) THEN r.ids[k] ELSE 0

XpathGet == pc = "read" /\ res.fn = "xmldb_get" /\ res.retval = 0

\* C11: prune preserves ancestry and is minimal.  When xmldb_get with an
\* xpath succeeds, every element the xpath gave and every element on the
\* path from the top to one of them is in the returned tree, below the same
\* parent, and the returned tree has no other element: none that is not on
\* such a path and none made after the assembly.
C11_PruneMinimal ==
    XpathGet =>
        /\ \A j \in OnPath(res) : \E k \in 1..Len(res.xtop) : IdOf(res, k) = j
        /\ \A k \in 1..Len(res.xtop) :
              /\ IdOf(res, k) \in OnPath(res)
              /\ res.xtop[k].name = res.xt0[IdOf(res, k)].name
              /\ IdOf(res, res.xtop[k].up) = res.xt0[IdOf(res, k)].up

\* an element of the returned tree that the walk of xml_default made
IsAdded(r, k) == IdOf(r, k) = 0

\* the children of the parent of k, in the returned tree, called as k
Namesakes(xt, k) == {j \in Children(xt, xt[k].up) : xt[j].name = xt[k].name}

GetCall == pc = "read" /\ res.fn \in {"xmldb_get", "xmldb_get_vec"} /\ res.retval = 0

DefaultLeaves(y) ==
    {l \in YangIds : /\ Yang[l].ys_parent = y
                     /\ Yang[l].ys_keyword = "Y_LEAF"
                     /\ Yang[l].ys_cv # NULL}

\* the containers the schema declares at the top
TopContainers ==
    {y \in YangIds : Yang[y].ys_keyword = "Y_CONTAINER" /\ Yang[y].ys_parent = 1}

\* the tree has the top element of container y with leaf l holding its
\* default
HasDefault(xt, y, l) ==
    \E e \in Children(xt, 0) :
        /\ xt[e].name = Yang[y].ys_argument
        /\ \E k \in Children(xt, e) :
              xt[k].name = Yang[l].ys_argument /\ xt[k].body = Yang[l].ys_cv

\* C13: default injection on absent containers.  When xmldb_get with no
\* xpath succeeds on a datastore with no pair at or under a top container
\* of the schema (the datastore with no pairs among them), the returned
\* tree has that container with each of its leaves that have a default,
\* holding the default: <c><n>42</n></c>.
C13_DefaultAbsent ==
    (pc = "read" /\ res.retval = 0) =>
        \A y \in TopContainers : \A l \in DefaultLeaves(y) :
            AtOrBelow(db, <<"/">> \o Yang[y].ys_argument) = {} =>
                HasDefault(res.xtop, y, l)

\* the lists of the schema whose key statement names several leaves
CompositeLists == {y \in YangIds : IsList(y) /\ Len(KeyNames(y)) > 1}

\* the elements of the tree called as yang statement y
Named(xt, y) == {e \in 1..Len(xt) : xt[e].name = Yang[y].ys_argument}

\* element e has, for each key name of list y, one child of that name,
\* holding the value of cvv for it and bound to a statement of that name
EntryOf(xt, e, y, cvv) ==
    \A n \in 1..Len(KeyNames(y)) :
        /\ Cardinality({k \in Children(xt, e) : xt[k].name = KeyNames(y)[n]}) = 1
        /\ \A k \in {k \in Children(xt, e) : xt[k].name = KeyNames(y)[n]} :
              /\ xt[k].body = cvv[n + 1]
              /\ xt[k].spec # 0
              /\ Yang[xt[k].spec].ys_argument = xt[k].name

\* C14: list with composite key.  When the datastore holds the pairs of one
\* entry of a list whose key statement names several leaves (the pair of
\* the entry and pairs below it), xmldb_get with no xpath succeeds and the
\* returned tree has one single element of the list, with no element of
\* the list nested in it, whose direct children are the key leaves with
\* the values of the key, each bound to a schema node called as the leaf.
C14_CompositeKey ==
    pc = "read" =>
        \A y \in CompositeLists : \A cvv \in ValueVecs(Len(KeyNames(y))) :
            ( /\ db_exists(db, xmlkeyfmt2key(yang2xmlkeyfmt(y), cvv).xk)
              /\ DOMAIN db = AtOrBelow(db, xmlkeyfmt2key(yang2xmlkeyfmt(y), cvv).xk) ) =>
                /\ res.retval = 0
                /\ Cardinality(Named(res.xtop, y)) = 1
                /\ \A e \in Named(res.xtop, y) : EntryOf(res.xtop, e, y, cvv)

LeafLists == {y \in YangIds : Yang[y].ys_keyword = "Y_LEAF_LIST"}

\* the key of the entry of leaf-list y with the value of cvv
LeafListKey(y, cvv) == xmlkeyfmt2key(yang2xmlkeyfmt(y), cvv).xk

\* C15: leaf-list assembly.  When every stored pair is the pair of a
\* leaf-list entry, with a value or with none, xmldb_get with no xpath
\* succeeds and the returned tree has, for each of the pairs, one element
\* of the leaf-list whose body is the last component of the key, and no
\* other element of the leaf-list.
C15_LeafList ==
    (pc = "read" /\ DOMAIN db # {} /\ DOMAIN db \subseteq KeysOf({"Y_LEAF_LIST"})) =>
        /\ res.retval = 0
        /\ \A y \in LeafLists :
              /\ \A cvv \in ValueVecs(1) :
                    db_exists(db, LeafListKey(y, cvv)) =>
                        Cardinality({e \in Named(res.xtop, y) :
                                        res.xtop[e].body = cvv[2]}) = 1
              /\ Cardinality(Named(res.xtop, y)) =
                    Cardinality({cvv \in ValueVecs(1) : db_exists(db, LeafListKey(y, cvv))})

\* the last mutation had an input that resolves against the schema: an edit
\* tree whose elements all resolve by name, or a key of the schema
Resolves(c) ==
    \/ c.fn = "xmldb_put" /\ \A i \in 1..Len(c.xt) : Resolve(c.xt, i) # 0
    \/ c.fn = "xmldb_put_xkey" /\ c.xk \in GrammarKeys

\* C16: single key grammar.  After a successful xmldb_put or xmldb_put_xkey
\* with an input that resolves against the schema, on the empty datastore,
\* xmldb_get with no xpath succeeds: it does not fail with MalformedKey,
\* UnknownNode or SchemaMismatch.
C16_SingleGrammar ==
    ( /\ pc = "read"
      /\ call.db0 = EmptyDb
      /\ call.out.retval = 0
      /\ Resolves(call) ) =>
        /\ res.retval = 0
        /\ res.err \notin {"MalformedKey", "UnknownNode", "SchemaMismatch"}

\* the leaves the schema declares in list y
ListLeaves(y) == {l \in YangIds : Yang[l].ys_parent = y /\ Yang[l].ys_keyword = "Y_LEAF"}

\* the key of the entry of list y with the key values of cvv
ListKey(y, cvv) == xmlkeyfmt2key(yang2xmlkeyfmt(y), cvv).xk

\* the datastore has the pair of the entry and, for each key name of the
\* list, the pair of the key leaf with its value
EntryStored(d, y, cvv) ==
    /\ db_exists(d, ListKey(y, cvv))
    /\ \A n \in 1..Len(KeyNames(y)) :
          /\ db_exists(d, ListKey(y, cvv) \o <<"/">> \o KeyNames(y)[n])
          /\ d[ListKey(y, cvv) \o <<"/">> \o KeyNames(y)[n]] = cvv[n + 1]

\* a datastore that xmldb_get with no xpath reads without error
Readable(d) == xmldb_get(d, Sorted(DOMAIN d)).retval = 0

\* C17: xmldb_put_xkey through a list entry.  xmldb_put_xkey with merge,
\* replace or create on the key of a leaf of a list entry (a key leaf with
\* the value the key has for it), on a datastore that can be read and is
\* without that entry, succeeds, reads one component of the key for each
\* key leaf of the list and leaves the pair of the entry and the pair of
\* each key leaf with its value, and the xmldb_get after it succeeds and
\* returns the entry with all its key leaves; for a list with one key leaf
\* and for a list with several.
C17_XkeyListEntry ==
    (pc = "read" /\ XkeyCall /\ IsWrite(call.op)) =>
        \A y \in {y \in YangIds : IsList(y)} : \A l \in ListLeaves(y) :
            \A cvv \in ValueVecs(Len(KeyNames(y))) :
                ( /\ call.xk = xmlkeyfmt2key(yang2xmlkeyfmt(l), cvv).xk
                  /\ \A n \in 1..Len(KeyNames(y)) :
                        KeyNames(y)[n] = Yang[l].ys_argument => call.val = cvv[n + 1]
                  /\ Readable(call.db0)
                  /\ AtOrBelow(call.db0, ListKey(y, cvv)) = {} ) =>
                    /\ call.out.retval = 0
                    /\ EntryStored(db, y, cvv)
                    /\ res.retval = 0
                    /\ \E e \in Named(res.xtop, y) : EntryOf(res.xtop, e, y, cvv)

\* the value of the operation attribute that stands for op
AttrOfOp(op) ==
    CASE op = "OP_MERGE"   -> <<"merge">>
      [] op = "OP_REPLACE" -> <<"replace">>
      [] op = "OP_CREATE"  -> <<"create">>
      [] op = "OP_DELETE"  -> <<"delete">>
      [] op = "OP_REMOVE"  -> <<"remove">>
      [] OTHER             -> NULL

\* the key leaves of an entry of list y below element up, with the values
\* of cvv from place from on
RECURSIVE KeyLeaves(_, _, _, _)
KeyLeaves(names, up, cvv, from) ==
    IF names = <<>> THEN <<>>
    ELSE <<Cx(up, Head(names), cvv[from], 0, NULL)>>
         \o KeyLeaves(Tail(names), up, cvv, from + 1)

\* the edit tree that holds exactly the path to schema node y with the key
\* values of cvv, and the element of y in it: a list entry has its key
\* leaves, a leaf-list entry its value
RECURSIVE PathTo(_, _)
PathTo(y, cvv) ==
    IF Yang[y].ys_keyword = "Y_MODULE" THEN [xt |-> <<>>, at |-> 0]
    ELSE IF Yang[y].ys_keyword \in {"Y_CHOICE", "Y_CASE"} THEN PathTo(Yang[y].ys_parent, cvv)
    ELSE LET P    == PathTo(Yang[y].ys_parent, cvv)
             from == 2 + NWild(yang2xmlkeyfmt(Yang[y].ys_parent))
             n    == Len(P.xt) + 1
         IN  IF P.at # 0 /\ xml_find(P.xt, P.at, Yang[y].ys_argument) # 0
             THEN [xt |-> P.xt, at |-> xml_find(P.xt, P.at, Yang[y].ys_argument)]
             ELSE IF Yang[y].ys_keyword = "Y_LIST"
             THEN [xt |-> Append(P.xt, Cx(P.at, Yang[y].ys_argument, NULL, 0, NULL))
                          \o KeyLeaves(KeyNames(y), n, cvv, from),
                   at |-> n]
             ELSE IF Yang[y].ys_keyword = "Y_LEAF_LIST"
             THEN [xt |-> Append(P.xt, Cx(P.at, Yang[y].ys_argument, cvv[from], 0, NULL)),
                   at |-> n]
             ELSE [xt |-> Append(P.xt, Cx(P.at, Yang[y].ys_argument, NULL, 0, NULL)),
                   at |-> n]

\* the path to y with the value val in the element of y when it is a leaf
\* that is not a key leaf, and with op as the operation of that element
PathTree(y, cvv, val, op) ==
    LET P == PathTo(y, cvv)
    IN  [P.xt EXCEPT ![P.at].attr = AttrOfOp(op),
                     ![P.at].body = IF Yang[y].ys_keyword = "Y_LEAF" /\ P.xt[P.at].body = NULL
                                    THEN val ELSE P.xt[P.at].body]

\* the value agrees with the key: the value of a leaf-list entry is the
\* last component, the value of a key leaf the component of that leaf
Agrees(y, cvv, val) == PathTree(y, cvv, val, "OP_MERGE") = PathTree(y, cvv, NULL, "OP_MERGE")
                       => val = PathTo(y, cvv).xt[PathTo(y, cvv).at].body

\* the tree walk of the path of y: the elements above y merged when op
\* writes and left alone when it deletes, the element of y under op
PutPath(d, y, cvv, val, op) ==
    xmldb_put(d, PathTree(y, cvv, val, op), IF IsWrite(op) THEN "OP_MERGE" ELSE "OP_NONE")

\* C18: xmldb_put_xkey performs the same mutation as xmldb_put.  For a key
\* of the schema, a value that agrees with the key and an operation among
\* merge, replace, create, delete and remove, xmldb_put_xkey ends as the
\* tree walk of the edit tree that holds exactly the path of the key with
\* the value under the operation ends on the same datastore: both succeed
\* or both fail with the same error, and they leave the same pairs.
C18_XkeySameAsPut ==
    (XkeyCall /\ call.op # "OP_NONE") =>
        \A y \in {y \in YangIds : Yang[y].ys_keyword \in DataKeywords} :
            \A cvv \in ValueVecs(NWild(yang2xmlkeyfmt(y))) :
                ( /\ call.xk = xmlkeyfmt2key(yang2xmlkeyfmt(y), cvv).xk
                  /\ Agrees(y, cvv, call.val) ) =>
                    /\ call.out.retval = PutPath(call.db0, y, cvv, call.val, call.op).retval
                    /\ call.out.err = PutPath(call.db0, y, cvv, call.val, call.op).err
                    /\ call.out.db = PutPath(call.db0, y, cvv, call.val, call.op).db

\* the statements from the top node of the schema down to y, y the last
RECURSIVE PathOf(_)
PathOf(y) ==
    IF y = 0 \/ Yang[y].ys_keyword \in {"Y_MODULE", "Y_SUBMODULE"} THEN <<>>
    ELSE Append(PathOf(Yang[y].ys_parent), y)

\* what a statement of the path gives to the format: nothing for a choice
\* and a case, else the name, then a placeholder for each key name of a
\* list and one placeholder for a leaf-list
Segment(y) ==
    IF Yang[y].ys_keyword \in {"Y_CHOICE", "Y_CASE"} THEN <<>>
    ELSE <<"/">> \o Yang[y].ys_argument
         \o Wildcards(IF Yang[y].ys_keyword = "Y_LIST" THEN Len(KeyNames(y))
                      ELSE IF Yang[y].ys_keyword = "Y_LEAF_LIST" THEN 1 ELSE 0)

RECURSIVE Joined(_)
Joined(path) == IF path = <<>> THEN <<>> ELSE Segment(Head(path)) \o Joined(Tail(path))

\* the key leaves of the lists and the leaf-lists on a path
RECURSIVE KeyCount(_)
KeyCount(path) ==
    IF path = <<>> THEN 0
    ELSE KeyCount(Tail(path))
         + (IF Yang[Head(path)].ys_keyword = "Y_LIST" THEN Len(KeyNames(Head(path)))
            ELSE IF Yang[Head(path)].ys_keyword = "Y_LEAF_LIST" THEN 1 ELSE 0)

\* the places of a format where a placeholder starts
Placeholders(fmt) == {i \in 1..Len(fmt) - 1 : fmt[i] = "%" /\ fmt[i + 1] = "s"}

\* C19: the key format.  yang2xmlkeyfmt(y) is, for each statement from the
\* top node below the module down to y, the name after a slash, nothing
\* for a choice and for a case, then one /%s for each name of the key
\* statement of a list and one /%s for a leaf-list; the number of its
\* placeholders is the number of key leaves of the lists on the path plus
\* the number of leaf-lists on the path.
C19_KeyFormat ==
    (pc \in {"fmt", "key"} /\ call.fn = "yang2xmlkeyfmt") =>
        /\ call.xkfmt = Joined(PathOf(call.ys))
        /\ Cardinality(Placeholders(call.xkfmt)) = KeyCount(PathOf(call.ys))

\* the format of the leaf below a choice and a case has been made
C19_Witness ==
    /\ pc = "fmt"
    /\ call.fn = "yang2xmlkeyfmt"
    /\ Yang[call.ys].ys_keyword = "Y_LEAF"
    /\ \E i \in 1..Len(PathOf(call.ys)) : Yang[PathOf(call.ys)[i]].ys_keyword = "Y_CASE"
    /\ call.xkfmt = <<"/", "a", "/", "d">>

\* the format with its placeholders, in order, replaced by the values of
\* cvv from the second on
RECURSIVE Filled(_, _, _)
Filled(fmt, cvv, k) ==
    IF fmt = <<>> THEN <<>>
    ELSE IF 1 \in Placeholders(fmt)
    THEN cvv[k] \o Filled(SubSeq(fmt, 3, Len(fmt)), cvv, k + 1)
    ELSE <<Head(fmt)>> \o Filled(Tail(fmt), cvv, k)

\* C20: the key of a format.  xmlkeyfmt2key on a format with n placeholders
\* and a vector of at least n + 1 values succeeds and returns the format
\* with placeholder i replaced by value i of the vector, the other
\* characters as they are, the first value of the vector (the cli string)
\* and the values after value n not used; it fails only when the vector has
\* less than n + 1 values, and then returns no key.
C20_KeyOfFormat ==
    (pc = "key" /\ res.fn = "xmlkeyfmt2key") =>
        /\ Len(res.cvv) >= Cardinality(Placeholders(res.xkfmt)) + 1 =>
              /\ res.out.retval = 0
              /\ res.out.xk = Filled(res.xkfmt, res.cvv, 2)
        /\ res.out.retval < 0 =>
              /\ Len(res.cvv) < Cardinality(Placeholders(res.xkfmt)) + 1
              /\ res.out.xk = NULL

\* a key was made from a format with two placeholders and a vector of the
\* cli string and three values of which the first two differ
C20_Witness ==
    /\ pc = "key"
    /\ res.fn = "xmlkeyfmt2key"
    /\ Cardinality(Placeholders(res.xkfmt)) = 2
    /\ Len(res.cvv) = 4
    /\ res.cvv[2] # res.cvv[3]
    /\ res.out.retval = 0

\* an RPC function of the client returned
RpcCalled == pc = "rpc" /\ call.fn \in RpcNames \cup {"close-session"}

\* the hello requests and the other requests among the steps w
Hellos(w) == {i \in DOMAIN w : w[i].ev = "rpc" /\ w[i].msg = "hello"}

Requests(w) == {i \in DOMAIN w : w[i].ev = "rpc" /\ w[i].msg # "hello"}

\* the hello requests the backend answered with a session id
Answered(w) == {i \in Hellos(w) : w[i].reply.kind = "hello"}

\* C21: the session id is obtained lazily and cached.  An RPC function
\* called while the handle holds a session id sends no hello, leaves the
\* id in the handle and sends its request with that id.  Called while
\* the handle holds none it sends at most one hello, before any request;
\* when the backend answers the hello with a session id, that id is in the
\* handle afterwards and the request carries it; when the hello fails the
\* handle still holds no id, the request is not sent and the function
\* returns -1.  The id in the handle is always the one the last answered
\* hello gave, and the only request of a call is the one of its function.
C21_LazySession ==
    RpcCalled =>
        /\ h.session_id = net.hello
        /\ \A i \in Requests(wire) : wire[i].msg = call.fn /\ wire[i].id = h.session_id
        /\ Cardinality(Requests(wire)) <= 1
        /\ call.h0.session_id >= 0 =>
              /\ Hellos(wire) = {}
              /\ h.session_id = call.h0.session_id
        /\ call.h0.session_id < 0 =>
              /\ Cardinality(Hellos(wire)) <= 1
              /\ \A i \in Hellos(wire) : \A j \in Requests(wire) : i < j
              /\ \A i \in Answered(wire) : h.session_id = wire[i].reply.id
              /\ Answered(wire) = {} =>
                    /\ h.session_id < 0
                    /\ Requests(wire) = {}
                    /\ call.retval = -1

\* a commit on a handle that holds session id 1 went out with that id
C21_Witness ==
    /\ RpcCalled
    /\ call.fn = "commit"
    /\ call.h0.session_id = 1
    /\ call.retval = 0
    /\ \E i \in Requests(wire) : wire[i].id = 1

\* the connects and the closes among the steps w
Connects(w) == {i \in DOMAIN w : w[i].ev = "connect"}

Closes(w) == {i \in DOMAIN w : w[i].ev = "close"}

\* the request of clicon_rpc_close_session went out and its reply came
\* back as a tree: clicon_rpc_msg returned 0
Exchanged ==
    /\ call.fn = "close-session"
    /\ \E i \in Requests(wire) : wire[i].reply.kind \notin {"fail", "garbage"}

Subtree(xt, a) == {j \in 1..Len(xt) : a \in Ancestors(xt, j)}

\* element i comes before element j in document order: i is above j, or
\* i is at or below a sibling that stands before the one j is at or below
DocBefore(xt, i, j) ==
    /\ i # j
    /\ \/ i \in Ancestors(xt, j)
       \/ \E a \in 1..Len(xt), b \in 1..Len(xt) :
             /\ xt[a].up = xt[b].up
             /\ a < b
             /\ i \in Subtree(xt, a)
             /\ j \in Subtree(xt, b)

LastWrite(c) == c.out.log[Len(c.out.log)]

\* the value xmldb_put_xkey stores at the key of a leaf or a leaf-list
\* entry is the caller's; a container or a list entry is stored without
ValueAt(c) == IF c.xk \in KeysOf({"Y_LEAF", "Y_LEAF_LIST"}) THEN c.val ELSE NULL

\* C24: the write order of xmldb_put_xkey.  A successful xmldb_put_xkey
\* with merge, replace or create makes only db_set calls; the last of them
\* stores, at the key of the call, the caller's value for a leaf or a
\* leaf-list entry, so every write of a container, a list entry or a key
\* leaf on the path comes before it, and the datastore holds that value at
\* the key afterwards.
C24_XkeyWriteOrder ==
    (XkeyCall /\ IsWrite(call.op) /\ call.out.retval = 0) =>
        /\ call.out.log # <<>>
        /\ \A m \in 1..Len(call.out.log) : call.out.log[m].call = "db_set"
        /\ LastWrite(call).key = call.xk
        /\ LastWrite(call).val = ValueAt(call)
        /\ db_exists(db, call.xk)
        /\ db[call.xk] = ValueAt(call)

\* the value 10 stored at the leaf v of the entry 1 of list x, after the
\* writes of c, of the entry and of its key leaf
C24_Witness ==
    /\ XkeyCall
    /\ call.op = "OP_MERGE"
    /\ call.out.retval = 0
    /\ call.xk = <<"/", "c", "/", "x", "/", "1", "/", "v">>
    /\ call.val = <<"1", "0">>
    /\ Len(call.out.log) >= 4
    /\ LastWrite(call).val = <<"1", "0">>

\* the calls xmldb_put made on the key/value store for element i
WritesOf(c, i) == {m \in 1..Len(c.out.log) : c.out.log[m].node = i}

\* the elements the walk of the call went through: all of them, or those
\* before the one it failed at
Walked(c) == IF c.out.retval < 0 THEN 1..(c.out.at - 1) ELSE 1..Len(c.xt)

\* C25: operation inheritance in xmldb_put.  Every element the walk went
\* through was written under its effective operation - its own operation
\* attribute, else the effective operation of its parent, else the op
\* argument: one db_set for merge, replace and create, one db_del for
\* delete and remove, nothing for none; and a walk that failed with
\* CreateExists, DeleteMissing or BadOperation failed at an element whose
\* effective operation is create, delete, or given by an attribute that is
\* none of the five.
C25_OperationInheritance ==
    PutCall =>
        /\ \A i \in Walked(call) :
              /\ EffOp(call.xt, i, call.op) \in {"OP_MERGE", "OP_REPLACE", "OP_CREATE"} =>
                    /\ Cardinality(WritesOf(call, i)) = 1
                    /\ \A m \in WritesOf(call, i) : call.out.log[m].call = "db_set"
              /\ EffOp(call.xt, i, call.op) \in {"OP_DELETE", "OP_REMOVE"} =>
                    /\ Cardinality(WritesOf(call, i)) = 1
                    /\ \A m \in WritesOf(call, i) : call.out.log[m].call = "db_del"
              /\ EffOp(call.xt, i, call.op) = "OP_NONE" => WritesOf(call, i) = {}
              /\ EffOp(call.xt, i, call.op) # "OP_BAD"
        /\ call.out.err = "CreateExists" => EffOp(call.xt, call.out.at, call.op) = "OP_CREATE"
        /\ call.out.err = "DeleteMissing" => EffOp(call.xt, call.out.at, call.op) = "OP_DELETE"
        /\ call.out.err = "BadOperation" => EffOp(call.xt, call.out.at, call.op) = "OP_BAD"
        /\ call.out.retval < 0 => WritesOf(call, call.out.at) = {}

\* a merge of three elements: the first child carries operation="remove"
\* and a child of its own, which was deleted with it; the second child of
\* the top was set
C25_Witness ==
    /\ PutCall
    /\ call.op = "OP_MERGE"
    /\ call.out.retval = 0
    /\ Len(call.xt) = 3
    /\ call.xt[1].attr # NULL
    /\ call.xt[2].up = 1
    /\ call.xt[3].up = 2
    /\ \A m \in WritesOf(call, 3) : call.out.log[m].call = "db_del"
    /\ WritesOf(call, 3) # {}

\* the keys whose pair the call made, removed or gave another value
Changed(c) ==
    {k \in DOMAIN c.db0 \cup DOMAIN c.out.db :
        \/ (k \in DOMAIN c.db0) # (k \in DOMAIN c.out.db)
        \/ k \in DOMAIN c.db0 /\ k \in DOMAIN c.out.db /\ c.db0[k] # c.out.db[k]}

\* element i, or an element above it, carries an operation attribute
UnderAttr(xt, i) == \E a \in Ancestors(xt, i) \ {0} : xt[a].attr # NULL

\* C26: operation none.  xmldb_put makes no db_set and no db_del for an
\* element whose effective operation is none, and still walks its
\* children: each child the walk went through is written under its own
\* effective operation.  With the op argument none every call on the
\* key/value store is made for an element that carries an operation
\* attribute or stands below one, and only the keys of those calls change.
\* xmldb_put_xkey with op none makes no call and leaves the datastore as
\* it was.
C26_OperationNone ==
    /\ PutCall =>
          /\ \A i \in Walked(call) :
                EffOp(call.xt, i, call.op) = "OP_NONE" =>
                    /\ WritesOf(call, i) = {}
                    /\ \A j \in Children(call.xt, i) \cap Walked(call) :
                          (WritesOf(call, j) = {}) = (EffOp(call.xt, j, call.op) = "OP_NONE")
                    /\ call.out.retval = 0 => Children(call.xt, i) \subseteq Walked(call)
          /\ call.op = "OP_NONE" =>
                /\ \A m \in 1..Len(call.out.log) : UnderAttr(call.xt, call.out.log[m].node)
                /\ \A k \in Changed(call) :
                      \E m \in 1..Len(call.out.log) : call.out.log[m].key = k
    /\ (XkeyCall /\ call.op = "OP_NONE") =>
          /\ call.out.log = <<>>
          /\ call.out.db = call.db0

\* xmldb_put with op none of an element without attribute and its child
\* with one: only the child was written
C26_Witness ==
    /\ PutCall
    /\ call.op = "OP_NONE"
    /\ call.out.retval = 0
    /\ Len(call.xt) >= 2
    /\ call.xt[1].attr = NULL
    /\ call.xt[2].up = 1
    /\ call.xt[2].attr # NULL
    /\ WritesOf(call, 1) = {}
    /\ WritesOf(call, 2) # {}
    /\ Changed(call) # {}

\* get was called once more on an assembled tree
GetAgain == pc = "read" /\ res.fn = "get"

\* C27: the assembler is idempotent.  After the pairs of a datastore were
\* integrated into a tree, get with one of these pairs again, or with a
\* key above the key of one of them, succeeds and leaves the tree as it
\* was: no element is added and none is changed.
C27_AssemblerIdempotent ==
    GetAgain =>
        /\ res.out.retval = 0
        /\ res.out.xt = res.xt0

\* xml_flag(x, XML_FLAG_MARK) of element k of the returned tree: xmldb_get
\* sets the flag on the elements the xpath gave, xml_tree_prune_unmarked
\* reads it, and nothing resets it
xml_flag(r, k) == IdOf(r, k) \in r.xvec

\* C28: MARK is transient.  When xmldb_get with an xpath returns, no
\* element of the returned tree has XML_FLAG_MARK set.
C28_MarkTransient ==
    XpathGet => \A k \in 1..Len(res.xtop) : ~xml_flag(res, k)

\* the key a delete or remove of xmldb_put_xkey is about: the key of the
\* call, or the key of the list entry when the call names a key leaf of it
DeleteKey(c) == IF c.xk \in KeyLeafKeys THEN EntryKey(c.xk) ELSE c.xk

CallsOn(c, k) == {m \in 1..Len(c.out.log) : c.out.log[m].key = k}

\* the last call a call made on key k was the db_set of value v
LastSet(c, k, v) ==
    \E m \in CallsOn(c, k) :
        /\ c.out.log[m].call = "db_set"
        /\ c.out.log[m].val = v
        /\ \A n \in CallsOn(c, k) : n <= m

\* C30: replace empties the datastore first.  When xmldb_put with op
\* replace fails, at whatever element and for whatever reason, every pair
\* of the datastore was stored by a db_set of this walk that no later call
\* of the walk undid, and no pair the datastore held before the call is
\* left unless the walk stored it again; a walk that fails before its
\* first write leaves the datastore empty.
C30_ReplaceEmptiesFirst ==
    (PutCall /\ call.op = "OP_REPLACE" /\ call.out.retval < 0) =>
        /\ \A k \in DOMAIN db : LastSet(call, k, db[k])
        /\ (call.out.log = <<>> => db = EmptyDb)

\* a replace on a datastore with pairs that failed on a delete attribute
\* after it had written: pairs of before the call are gone
C30_Witness ==
    /\ PutCall
    /\ call.op = "OP_REPLACE"
    /\ call.out.retval < 0
    /\ call.out.err = "DeleteMissing"
    /\ call.out.log # <<>>
    /\ \E k \in DOMAIN call.db0 : k \notin DOMAIN db

====
